---------------------------- MODULE Spec2Model ----------------------------
(***************************************************************************)
(* The hierarchical graph navigation engine of the idea-constellation page *)
(* (frontend/src/app/page.tsx, component IdeaGraphInner, lines 742-1432):  *)
(* the view-state machine, the company filter aggregation and the build    *)
(* effect that derives the node and edge lists handed to the renderer.     *)
(*                                                                         *)
(* Idea ids are the integers 1..NumIdeas (the code's id strings); cluster  *)
(* ids are strings.  JavaScript null is the record Null, except for an     *)
(* idea's cluster_id, a string, where it is NoClusterId.                   *)
(***************************************************************************)
EXTENDS Integers, Sequences, FiniteSets, TLC

VARIABLES
    graphData,          \* useState: {ideas, connections, clusters} | null
    isLoading,          \* useState(true)
    error,              \* useState: [message] | null
    selectedIdea,       \* useState: the idea inspected in the side panel | null
    viewLevel,          \* useState<ViewLevel>("clusters")
    focusedCluster,     \* useState<ClusterInfo | null>(null)
    focusedIdea,        \* useState<IdeaNodeData | null>(null)
    selectedCompanies,  \* useState<string[]>([])
    nodes,              \* useNodesState([]): written by the build effect
    edges,              \* useEdgesState([]): written by the build effect
    last,               \* history: the last operation, with the level and panel it started from
    path,               \* history: the view transitions since the view last left its initial state
    call,               \* a helper called on its own: its name and its arguments
    result,             \* what that call returned
    ideaGraphCache,     \* companyLogo.ts: let ideaGraphCache = null
    ideaGraphCacheTime, \* companyLogo.ts: let ideaGraphCacheTime = 0
    clock,              \* Date.now(), in minutes
    calls,              \* history: the calls of getIdeaGraph, the one in flight included
    searchPage,         \* search/page.tsx: the useState values of the search page
    searchRequest,      \* the searchPodcasts request in flight | null
    clearedSince,       \* history: handleClear ran after the last submitted search
    showAllNodes        \* older page (page.tsx 2119): useState(false), bubbles or all nodes

\* the state of the constellation page component
pageVars == <<graphData, isLoading, error, selectedIdea, viewLevel, focusedCluster,
              focusedIdea, selectedCompanies, nodes, edges, last, path>>

\* a helper function called outside the page
fnVars == <<call, result>>

\* the module state of the API client and the calls made to it
libVars == <<ideaGraphCache, ideaGraphCacheTime, clock, calls>>

\* the state of the search page component
searchVars == <<searchPage, searchRequest, clearedSince>>

\* what no handler of the constellation page reads or writes
offPage == <<fnVars, libVars, searchVars, showAllNodes>>

vars == <<pageVars, offPage>>

-----------------------------------------------------------------------------
(* Bounds of the model *)

NumIdeas == 4
NumClusters == 2
MaxPath == 4

(* Program constants *)

TopIdeasLimit == 20
CardTopIdeas == 5

Null == [null |-> TRUE]
NoClusterId == "<null>"

ViewLevel == {"clusters", "topIdeas", "connectedIdeas", "allIdeas"}

-----------------------------------------------------------------------------
(* Generic array helpers (Array.prototype.includes / filter / slice) *)

Includes(arr, x) == \E k \in 1..Len(arr) : arr[k] = x

Slice(arr, n) == SubSeq(arr, 1, IF Len(arr) < n THEN Len(arr) ELSE n)

Range(arr) == {arr[k] : k \in 1..Len(arr)}

RECURSIVE SumSeq(_)
SumSeq(s) == IF s = <<>> THEN 0 ELSE Head(s) + SumSeq(Tail(s))

-----------------------------------------------------------------------------
(* The external name-extraction collaborator, on the episode titles the    *)
(* payloads below use.  Each line is the result of running the code of     *)
(* extractCompaniesFromTitle on that title: the parenthesised list after   *)
(* the pipe is split on commas and each part that is no role is a company; *)
(* a title with no parentheses and no known company gives the empty list.  *)

TitleStripe == "Pricing | Ann Lee (Stripe)"
TitleFigmaStripe == "Design | Bo Chen (Figma, Stripe)"
TitleNone == "Hiring | Cy Diaz"
TitleFigma == "Notes | Di Fox (Figma)"

Titles == <<TitleStripe, TitleFigmaStripe, TitleNone, TitleFigma>>

extractCompaniesFromTitle(episodeTitle) ==
    CASE episodeTitle = TitleStripe -> <<"Stripe">>
      [] episodeTitle = TitleFigmaStripe -> <<"Figma", "Stripe">>
      [] episodeTitle = TitleFigma -> <<"Figma">>
      [] OTHER -> <<>>

-----------------------------------------------------------------------------
(* The graph payloads the data source may return (IdeaGraphResponse).      *)
(* Only the fields the engine reads are kept.                              *)

ClusterIdTable == <<"c1", "c2", "c3", "c4">>

IdeaIds == 1..NumIdeas

\* cluster assignments: spread over the clusters; all in the first cluster
\* (the others are empty); spread, the last idea belonging to no cluster.
ClusterAssignments ==
    { [k \in IdeaIds |-> ClusterIdTable[((k - 1) % NumClusters) + 1]],
      [k \in IdeaIds |-> ClusterIdTable[1]],
      [k \in IdeaIds |-> IF k = NumIdeas THEN NoClusterId
                         ELSE ClusterIdTable[((k - 1) % NumClusters) + 1]] }

TitleAssignments ==
    { [k \in IdeaIds |-> Titles[((k - 1) % 4) + 1]],
      [k \in IdeaIds |-> Titles[((k + 1) % 4) + 1]],
      [k \in IdeaIds |-> IF k % 2 = 1 THEN TitleStripe ELSE TitleFigma] }

MkConn(s, t, ty, st) ==
    [source |-> s, target |-> t, connection_type |-> ty, strength |-> st]

\* connection lists: none; a chain 1-2-3-...; a star around idea 1 whose
\* first edge points at the hub and is contradictory.
ConnectionLists ==
    { <<>>,
      [k \in 1..(NumIdeas - 1) |-> MkConn(k, k + 1, "similar", 7)],
      [k \in 1..(NumIdeas - 1) |->
          IF k = 1 THEN MkConn(2, 1, "contradictory", 5)
          ELSE MkConn(1, k + 1, "similar", 9)] }

MkIdea(k, ca, ta) == [id |-> k, cluster_id |-> ca[k], episode_title |-> ta[k]]

\* idea_count is the precomputed count of the unfiltered dataset
MkCluster(c, ca) ==
    [id |-> ClusterIdTable[c],
     name |-> ClusterIdTable[c],
     idea_count |-> Cardinality({k \in IdeaIds : ca[k] = ClusterIdTable[c]})]

MkPayload(ca, ta, cl) ==
    [nodes |-> [k \in IdeaIds |-> MkIdea(k, ca, ta)],
     edges |-> cl,
     clusters |-> [c \in 1..NumClusters |-> MkCluster(c, ca)]]

\* a payload whose first cluster holds more ideas than the topIdeas view
\* draws, most of them of one company; the last idea is the best connected.
\* It is loaded by SpecLarge.
LargeIdeas == TopIdeasLimit + 3

LargePayload ==
    [nodes |-> [k \in 1..LargeIdeas |->
                  [id |-> k, cluster_id |-> ClusterIdTable[1],
                   episode_title |-> CASE k = 1 -> TitleFigmaStripe
                                       [] k = 2 -> TitleNone
                                       [] k = 3 -> TitleFigma
                                       [] OTHER -> TitleStripe]],
     edges |-> <<MkConn(LargeIdeas, LargeIdeas - 1, "similar", 10),
                 MkConn(2, LargeIdeas, "contradictory", 3)>>,
     clusters |-> [c \in 1..NumClusters |->
                     [id |-> ClusterIdTable[c], name |-> ClusterIdTable[c],
                      idea_count |-> IF c = 1 THEN LargeIdeas ELSE 0]]]

Payloads ==
    { MkPayload(ca, ta, cl) :
        ca \in ClusterAssignments, ta \in TitleAssignments, cl \in ConnectionLists }


-----------------------------------------------------------------------------
(* Filter aggregation (page.tsx 799-829) *)

\* mutant: only the first company of the title is looked up
MatchesFilter_FirstOnly(idea, sc) ==
    LET companies == extractCompaniesFromTitle(idea.episode_title)
    IN  Len(companies) > 0 /\ Includes(sc, companies[1])

\* mutant: only the company selected first is looked up
MatchesFilter_FirstSelected(idea, sc) ==
    \E k \in 1..Len(extractCompaniesFromTitle(idea.episode_title)) :
        extractCompaniesFromTitle(idea.episode_title)[k] = sc[1]

\* companies.some((c) => selectedCompanies.includes(c))
MatchesFilter(idea, sc) ==
    LET companies == extractCompaniesFromTitle(idea.episode_title)
    IN  \E k \in 1..Len(companies) : Includes(sc, companies[k])

filteredIdeas(gd, sc) ==
    IF gd = Null THEN <<>>
    ELSE IF Len(sc) = 0 THEN gd.ideas
    ELSE SelectSeq(gd.ideas, LAMBDA idea : MatchesFilter(idea, sc))

filteredIdeaIds(gd, sc) == {i.id : i \in Range(filteredIdeas(gd, sc))}

\* idea.cluster_id || ""
ClusterKey(idea) == IF idea.cluster_id = NoClusterId THEN "" ELSE idea.cluster_id

\* clusterCounts.get(id) || 0, after the forEach over filteredIdeas
clusterCounts(gd, sc, id) ==
    LET fi == filteredIdeas(gd, sc)
    IN  Cardinality({k \in 1..Len(fi) : ClusterKey(fi[k]) = id})

\* mutant: clusters left with no idea are dropped
filteredClusters_DropEmpty(gd, sc) ==
    IF gd = Null THEN <<>>
    ELSE IF Len(sc) = 0 THEN gd.clusters
    ELSE SelectSeq([k \in 1..Len(gd.clusters) |->
                      [gd.clusters[k] EXCEPT
                          !.idea_count = clusterCounts(gd, sc, gd.clusters[k].id)]],
                   LAMBDA c : c.idea_count > 0)

filteredClusters(gd, sc) ==
    IF gd = Null THEN <<>>
    ELSE IF Len(sc) = 0 THEN gd.clusters
    ELSE [k \in 1..Len(gd.clusters) |->
            [gd.clusters[k] EXCEPT !.idea_count = clusterCounts(gd, sc, gd.clusters[k].id)]]

-----------------------------------------------------------------------------
(* Connections (page.tsx 859-869, 883-890, 940-956, 1169-1177) *)

getConnectedIdeas(gd, ideaId) ==
    IF gd = Null THEN <<>>
    ELSE LET connectedIds ==
                 {c.target : c \in {d \in Range(gd.connections) : d.source = ideaId}}
                 \cup {c.source : c \in {d \in Range(gd.connections) : d.target = ideaId}}
         IN  SelectSeq(gd.ideas, LAMBDA i : i.id \in connectedIds)

\* connCounts.get(id) || 0: every connection counts once for its source and
\* once for its target
connCount(connections, id) ==
    Cardinality({k \in 1..Len(connections) : connections[k].source = id})
    + Cardinality({k \in 1..Len(connections) : connections[k].target = id})

\* insert index x behind every index whose count is at least x's (the sort
\* is stable: equal counts keep the order of the array)
RECURSIVE InsertByCount(_, _, _)
InsertByCount(sorted, x, counts) ==
    IF sorted = <<>> THEN <<x>>
    ELSE IF counts[Head(sorted)] >= counts[x]
         THEN <<Head(sorted)>> \o InsertByCount(Tail(sorted), x, counts)
         ELSE <<x>> \o sorted

\* the indices 1..n in descending order of count
RECURSIVE SortIndices(_, _)
SortIndices(n, counts) ==
    IF n = 0 THEN <<>>
    ELSE InsertByCount(SortIndices(n - 1, counts), n, counts)

\* [...ideas].sort((a, b) => count(b) - count(a))
SortByConnCount(ideas, connections) ==
    LET counts == [k \in 1..Len(ideas) |-> connCount(connections, ideas[k].id)] \o <<>>
        order == SortIndices(Len(ideas), counts)
    IN  [r \in 1..Len(ideas) |-> ideas[order[r]]] \o <<>>

InCluster(ideas, clusterId) == SelectSeq(ideas, LAMBDA i : i.cluster_id = clusterId)

-----------------------------------------------------------------------------
(* availableCompanies (page.tsx 871-906), as the set the sorted array holds *)

\* mutant: at level clusters the companies come from the filtered ideas
relevantIdeas_Filtered(gd, lvl, fc, fi) ==
    IF lvl = "clusters" THEN filteredIdeas(gd, selectedCompanies)
    ELSE IF lvl = "topIdeas" /\ fc # Null
         THEN Slice(SortByConnCount(InCluster(gd.ideas, fc.id), gd.connections), TopIdeasLimit)
    ELSE IF lvl = "connectedIdeas" /\ fi # Null
         THEN <<fi>> \o getConnectedIdeas(gd, fi.id)
    ELSE IF lvl = "allIdeas" /\ fc # Null
         THEN InCluster(gd.ideas, fc.id)
    ELSE <<>>

relevantIdeas(gd, lvl, fc, fi) ==
    IF lvl = "clusters" THEN gd.ideas
    ELSE IF lvl = "topIdeas" /\ fc # Null
         THEN Slice(SortByConnCount(InCluster(gd.ideas, fc.id), gd.connections), TopIdeasLimit)
    ELSE IF lvl = "connectedIdeas" /\ fi # Null
         THEN <<fi>> \o getConnectedIdeas(gd, fi.id)
    ELSE IF lvl = "allIdeas" /\ fc # Null
         THEN InCluster(gd.ideas, fc.id)
    ELSE <<>>

availableCompanies(gd, lvl, fc, fi) ==
    IF gd = Null THEN {}
    ELSE UNION {Range(extractCompaniesFromTitle(i.episode_title)) :
                    i \in Range(relevantIdeas(gd, lvl, fc, fi))}


-----------------------------------------------------------------------------
(* Numbers.  The code computes positions in IEEE doubles; the model keeps  *)
(* lengths in tenths of a pixel and forces in thousandths, rounding every  *)
(* quotient to the nearest integer.                                        *)

Abs(a) == IF a < 0 THEN -a ELSE a

Max(a, b) == IF a > b THEN a ELSE b

Min(a, b) == IF a < b THEN a ELSE b

\* a / b rounded to the nearest integer, for b > 0
DivRound(a, b) == IF a >= 0 THEN (2 * a + b) \div (2 * b) ELSE -((2 * (-a) + b) \div (2 * b))

\* Math.ceil(a / b) for a >= 0, b > 0
CeilDiv(a, b) == (a + b - 1) \div b

RECURSIVE SqrtBetween(_, _, _)
SqrtBetween(n, lo, hi) ==
    IF lo >= hi THEN lo
    ELSE LET mid == (lo + hi + 1) \div 2
         IN  IF mid * mid <= n THEN SqrtBetween(n, mid, hi) ELSE SqrtBetween(n, lo, mid - 1)

\* Math.sqrt(n) rounded to the nearest integer
Sqrt(n) ==
    LET r == SqrtBetween(n, 0, 46339)
    IN  IF n - r * r > r THEN r + 1 ELSE r

\* Math.ceil(Math.sqrt(n))
CeilSqrt(n) == CHOOSE c \in 0..n : c * c >= n /\ (c = 0 \/ (c - 1) * (c - 1) < n)

\* pixels as tenths of a pixel
Px(p) == p * 10

-----------------------------------------------------------------------------
(* Math.sin and Math.cos of a fraction of a turn, in ten-thousandths *)

\* sin(2 pi p / q) for 0 <= p / q <= 1/4, by its Taylor series to the ninth power
SinQuarter(p, q) ==
    LET x == DivRound(62832 * p, q)
        x2 == DivRound(x * x, 10000)
        h4 == 10000 - DivRound(x2, 72)
        h3 == 10000 - DivRound(x2 * h4, 420000)
        h2 == 10000 - DivRound(x2 * h3, 200000)
        h1 == 10000 - DivRound(x2 * h2, 60000)
    IN  DivRound(x * h1, 10000)

\* sin(2 pi num / den) for num >= 0, den > 0
SinTurn(num, den) ==
    LET r == num % den
    IN  IF 4 * r <= den THEN SinQuarter(r, den)
        ELSE IF 4 * r <= 2 * den THEN SinQuarter(den - 2 * r, 2 * den)
        ELSE IF 4 * r <= 3 * den THEN -SinQuarter(2 * r - den, 2 * den)
        ELSE -SinQuarter(den - r, den)

\* cos(2 pi num / den)
CosTurn(num, den) == SinTurn(4 * num + den, 4 * den)

\* the point at radius (whole pixels) and angle 2 pi j / m - pi / 2:
\* x = radius * cos(angle), y = radius * sin(angle)
RingPoint(radius, j, m) ==
    [x |-> DivRound(radius * SinTurn(j, m), 1000),
     y |-> -DivRound(radius * CosTurn(j, m), 1000)]

-----------------------------------------------------------------------------
(* forceDirectedLayout (page.tsx 292-349).  Indices are the code's plus one. *)

\* the force node j adds to node i in one iteration (thousandths of a pixel)
Repulsion(positions, i, j, spacing, repulsionStrength) ==
    LET dx == positions[j].x - positions[i].x
        dy == positions[j].y - positions[i].y
        distSq == dx * dx + dy * dy
        dist == IF distSq = 0 THEN Px(1) ELSE Sqrt(distSq)
        minDist == DivRound(spacing * 9, 10)
        \* repulsionStrength / distSq, in hundredths of a pixel
        force == DivRound(repulsionStrength * 100, DivRound(distSq, 100))
    IN  IF dist < minDist
        THEN [x |-> -DivRound(dx * force * 10, dist), y |-> -DivRound(dy * force * 10, dist)]
        ELSE [x |-> 0, y |-> 0]

\* forces[i] after the two loops of one iteration: the repulsion of every
\* other node and the pull toward the center (centerPull = 0.01)
ForceOn(positions, i, spacing, repulsionStrength) ==
    LET count == Len(positions)
        rep == [j \in 1..count |->
                   IF j = i THEN [x |-> 0, y |-> 0]
                   ELSE Repulsion(positions, i, j, spacing, repulsionStrength)]
    IN  [x |-> SumSeq([j \in 1..count |-> rep[j].x]) - positions[i].x,
         y |-> SumSeq([j \in 1..count |-> rep[j].y]) - positions[i].y]

\* one iteration: forces applied with damping 0.3
ForceStep(positions, spacing, repulsionStrength) ==
    [i \in 1..Len(positions) |->
        LET f == ForceOn(positions, i, spacing, repulsionStrength)
        IN  [x |-> positions[i].x + DivRound(f.x * 3, 1000),
             y |-> positions[i].y + DivRound(f.y * 3, 1000)]]

\* the for loop over iter: the steps are taken in two halves, one after the other
RECURSIVE ForceIterate(_, _, _, _)
ForceIterate(positions, spacing, repulsionStrength, iterations) ==
    IF iterations = 0 THEN positions
    ELSE IF iterations = 1
        THEN ForceStep(positions, spacing, repulsionStrength) \o <<>>
    ELSE LET half == iterations \div 2
             moved == ForceIterate(positions, spacing, repulsionStrength, half)
         IN  IF Len(moved) = Len(positions)
             THEN ForceIterate(moved, spacing, repulsionStrength, iterations - half)
             ELSE <<>>

forceDirectedLayout(count, nodeWidth, nodeHeight, iterations) ==
    IF count = 0 THEN <<>>
    ELSE
    LET cols == CeilSqrt(count)
        \* Math.max(nodeWidth, nodeHeight) * 1.8, the sizes being whole pixels
        spacing == Max(nodeWidth, nodeHeight) * 18
        positions == [i \in 1..count |->
            [x |-> ((i - 1) % cols) * spacing - DivRound(cols * spacing, 2),
             y |-> ((i - 1) \div cols) * spacing
                   - DivRound(CeilDiv(count, cols) * spacing, 2)]]
        \* spacing * spacing * 2, in square pixels
        repulsionStrength == DivRound(spacing * spacing * 2, 100)
    IN  ForceIterate(positions \o <<>>, spacing, repulsionStrength, iterations)

-----------------------------------------------------------------------------
(* Edge routing and weight (page.tsx 249-289) *)

\* mutant: the normalized strength is not clamped
getStrokeWidth_Unclamped(strength) == 20 + (strength - 5) * 8

\* strength is kept in tenths (0.5 is 5), the width in tenths of a pixel:
\* 2 + max(0, min(1, (strength - 0.5) / 0.5)) * 4
getStrokeWidth(strength) == 20 + Max(0, Min(5, strength - 5)) * 8

\* mutant: the first sector is closed at 45 degrees
getNearestHandles_ClosedSector(sourcePos, targetPos) ==
    LET dx == targetPos.x - sourcePos.x
        dy == targetPos.y - sourcePos.y
    IN  IF (dx = 0 /\ dy = 0) \/ (dx > 0 /\ dy >= -dx /\ dy <= dx)
            THEN [sourceHandle |-> "right-source", targetHandle |-> "left"]
        ELSE IF dy > 0 /\ dx <= dy /\ dx > -dy
            THEN [sourceHandle |-> "bottom-source", targetHandle |-> "top"]
        ELSE IF dy < 0 /\ dx >= dy /\ dx < -dy
            THEN [sourceHandle |-> "top-source", targetHandle |-> "bottom"]
        ELSE [sourceHandle |-> "left-source", targetHandle |-> "right"]

\* the sector of atan2(dy, dx) in degrees: [-45, 45), [45, 135), [-135, -45),
\* anything else
getNearestHandles(sourcePos, targetPos) ==
    LET dx == targetPos.x - sourcePos.x
        dy == targetPos.y - sourcePos.y
    IN  IF (dx = 0 /\ dy = 0) \/ (dx > 0 /\ dy >= -dx /\ dy < dx)
            THEN [sourceHandle |-> "right-source", targetHandle |-> "left"]
        ELSE IF dy > 0 /\ dx <= dy /\ dx > -dy
            THEN [sourceHandle |-> "bottom-source", targetHandle |-> "top"]
        ELSE IF dy < 0 /\ dx >= dy /\ dx < -dy
            THEN [sourceHandle |-> "top-source", targetHandle |-> "bottom"]
        ELSE [sourceHandle |-> "left-source", targetHandle |-> "right"]

-----------------------------------------------------------------------------
(* Layout helpers (page.tsx 933-1142): the node list of each level *)

\* Math.ceil(n / 2)
CeilHalf(n) == (n + 1) \div 2

ClusterSpacingX == 700
ClusterSpacingY == 850

\* mutant: a card whose cluster counts no idea cannot be selected
layoutClusters_EmptyNotClickable(clusters, ideas, connections) ==
    LET cols == CeilHalf(Len(clusters))
    IN  [k \in 1..Len(clusters) |->
            [id |-> <<"cluster", clusters[k].id>>,
             type |-> "clusterSummary",
             position |-> [x |-> ((k - 1) % cols) * ClusterSpacingX
                                 - ((cols - 1) * ClusterSpacingX) \div 2,
                           y |-> ((k - 1) \div cols) * ClusterSpacingY
                                 - ClusterSpacingY \div 2],
             data |-> clusters[k],
             topIdeas |-> Slice(SortByConnCount(InCluster(ideas, clusters[k].id),
                                                connections), CardTopIdeas),
             onClick |-> IF clusters[k].idea_count = 0 THEN "none"
                         ELSE "handleExpandCluster"]]

\* mutant: the grid is filled column by column
layoutClusters_ColumnMajor(clusters, ideas, connections) ==
    LET cols == CeilHalf(Len(clusters))
    IN  [k \in 1..Len(clusters) |->
            [id |-> <<"cluster", clusters[k].id>>,
             type |-> "clusterSummary",
             position |-> [x |-> ((k - 1) \div 2) * ClusterSpacingX
                                 - ((cols - 1) * ClusterSpacingX) \div 2,
                           y |-> ((k - 1) % 2) * ClusterSpacingY
                                 - ClusterSpacingY \div 2],
             data |-> clusters[k],
             topIdeas |-> Slice(SortByConnCount(InCluster(ideas, clusters[k].id),
                                                connections), CardTopIdeas),
             onClick |-> "handleExpandCluster"]]

layoutClusters(clusters, ideas, connections) ==
    LET cols == CeilHalf(Len(clusters))
    IN  [k \in 1..Len(clusters) |->
            [id |-> <<"cluster", clusters[k].id>>,
             type |-> "clusterSummary",
             position |-> [x |-> ((k - 1) % cols) * ClusterSpacingX
                                 - ((cols - 1) * ClusterSpacingX) \div 2,
                           y |-> ((k - 1) \div cols) * ClusterSpacingY
                                 - ClusterSpacingY \div 2],
             data |-> clusters[k],
             topIdeas |-> Slice(SortByConnCount(InCluster(ideas, clusters[k].id),
                                                connections), CardTopIdeas),
             onClick |-> "handleExpandCluster"]]

\* mutant: the outer ring divides the turn by the inner ring's count
topIdeaPosition_OuterByInner(i, n) ==
    LET innerRingCount == Min(6, n - 1)
    IN  IF i = 0 THEN [x |-> 0, y |-> 0]
        ELSE IF i <= innerRingCount THEN RingPoint(790, i - 1, innerRingCount)
        ELSE RingPoint(1430, i - 1 - innerRingCount, innerRingCount)

\* tiered layout: the first idea at the center, up to six on the inner ring
\* (radius 790), the rest on the outer ring (radius 1430); i is the code's index
topIdeaPosition(i, n) ==
    LET innerRingCount == Min(6, n - 1)
        outerRingCount == Max(0, n - 1 - innerRingCount)
    IN  IF i = 0 THEN [x |-> 0, y |-> 0]
        ELSE IF i <= innerRingCount THEN RingPoint(790, i - 1, innerRingCount)
        ELSE RingPoint(1430, i - 1 - innerRingCount, outerRingCount)

\* mutant: the ideas are ranked by their connections inside the view only
layoutTopIdeas_VisibleRank(ideas, allConnections) ==
    LET visibleIds == {i.id : i \in Range(ideas)}
        connections == SelectSeq(allConnections,
                           LAMBDA conn : conn.source \in visibleIds /\ conn.target \in visibleIds)
        sortedIdeas == SortByConnCount(ideas, connections)
    IN  [k \in 1..Len(sortedIdeas) |->
            [id |-> sortedIdeas[k].id,
             type |-> "idea",
             position |-> topIdeaPosition(k - 1, Len(sortedIdeas)),
             data |-> sortedIdeas[k],
             isCenter |-> (k = 1),
             onClick |-> "handleExpandIdea"]]

layoutTopIdeas(ideas, allConnections) ==
    LET sortedIdeas == SortByConnCount(ideas, allConnections)
    IN  [k \in 1..Len(sortedIdeas) |->
            [id |-> sortedIdeas[k].id,
             type |-> "idea",
             position |-> topIdeaPosition(k - 1, Len(sortedIdeas)),
             data |-> sortedIdeas[k],
             isCenter |-> (k = 1),
             onClick |-> "handleExpandIdea"]]

\* forceDirectedLayout(n, 605, 275, 60) for every n the payloads can ask for
ConnectedLayouts ==
    [n \in 1..NumIdeas |-> forceDirectedLayout(n, 605, 275, 60)] \o <<>>

\* one position re-centered on the centroid, then pushed outward by
\* pushDistance = 530: scale = (dist + pushDistance) / dist
pushOutward(position, centroidX, centroidY) ==
    LET x == position.x - centroidX
        y == position.y - centroidY
        distSq == x * x + y * y
        dist == IF distSq = 0 THEN Px(1) ELSE Sqrt(distSq)
    IN  [x |-> DivRound(x * (dist + Px(530)), dist),
         y |-> DivRound(y * (dist + Px(530)), dist)]

\* the positions of a layout around their centroid, pushed outward
recenterAndPush(positions) ==
    LET n == Len(positions)
        centroidX == DivRound(SumSeq([k \in 1..n |-> positions[k].x]), n)
        centroidY == DivRound(SumSeq([k \in 1..n |-> positions[k].y]), n)
    IN  [k \in 1..n |-> pushOutward(positions[k], centroidX, centroidY)]

\* the surrounding nodes of n connected ideas
connectedPositions(n) == recenterAndPush(ConnectedLayouts[n])

\* mutant: a connected idea's node drills in instead of opening the panel
layoutConnectedIdeas_Refocus(centerIdea, connectedIdeas) ==
    <<[id |-> centerIdea.id, type |-> "idea", position |-> [x |-> 0, y |-> 0],
       data |-> centerIdea, isCenter |-> TRUE, onClick |-> "setSelectedIdea"]>>
    \o [k \in 1..Len(connectedIdeas) |->
            [id |-> connectedIdeas[k].id,
             type |-> "idea",
             position |-> connectedPositions(Len(connectedIdeas))[k],
             data |-> connectedIdeas[k],
             isCenter |-> FALSE,
             onClick |-> "handleExpandIdea"]]

\* mutant: the center node is laid out with the others
layoutConnectedIdeas_FloatingCenter(centerIdea, connectedIdeas) ==
    LET all == <<centerIdea>> \o connectedIdeas
    IN  [k \in 1..Len(all) |->
            [id |-> all[k].id,
             type |-> "idea",
             position |-> connectedPositions(Len(all))[k],
             data |-> all[k],
             isCenter |-> (k = 1),
             onClick |-> "setSelectedIdea"]]

layoutConnectedIdeas(centerIdea, connectedIdeas) ==
    <<[id |-> centerIdea.id, type |-> "idea", position |-> [x |-> 0, y |-> 0],
       data |-> centerIdea, isCenter |-> TRUE, onClick |-> "setSelectedIdea"]>>
    \o [k \in 1..Len(connectedIdeas) |->
            [id |-> connectedIdeas[k].id,
             type |-> "idea",
             position |-> connectedPositions(Len(connectedIdeas))[k],
             data |-> connectedIdeas[k],
             isCenter |-> FALSE,
             onClick |-> "setSelectedIdea"]]

ideasPerRing == <<1, 4, 6, 8, 10, 12, 14>>

\* mutant: past the last entry the capacities start over
RECURSIVE RingSlot_Wrap(_, _)
RingSlot_Wrap(ideaIndex, ring) ==
    LET itemsInRing == ideasPerRing[(ring % Len(ideasPerRing)) + 1]
    IN  IF ideaIndex < itemsInRing
        THEN [ring |-> ring, j |-> ideaIndex, itemsInRing |-> itemsInRing]
        ELSE RingSlot_Wrap(ideaIndex - itemsInRing, ring + 1)

\* the ring and the slot the while loop gives the idea of index ideaIndex
RECURSIVE RingSlot(_, _)
RingSlot(ideaIndex, ring) ==
    LET itemsInRing == ideasPerRing[Min(ring, Len(ideasPerRing) - 1) + 1]
    IN  IF ideaIndex < itemsInRing
        THEN [ring |-> ring, j |-> ideaIndex, itemsInRing |-> itemsInRing]
        ELSE RingSlot(ideaIndex - itemsInRing, ring + 1)

\* concentric rings, ringSpacing = 800 apart, from baseRadius = 0
layoutAllIdeas(ideas) ==
    [k \in 1..Len(ideas) |->
        LET at == RingSlot(k - 1, 0)
        IN  [id |-> ideas[k].id,
             type |-> "idea",
             position |-> RingPoint(at.ring * 800, at.j, at.itemsInRing),
             data |-> ideas[k],
             isCenter |-> FALSE,
             onClick |-> "handleExpandIdea"]]

-----------------------------------------------------------------------------
(* The build effect (page.tsx 1144-1299) *)

\* visibleIdeaCount (page.tsx 909-931): the number the header shows
visibleIdeaCount(gd, lvl, fc, fi, sc) ==
    IF gd = Null THEN 0
    ELSE LET baseIdeas == IF Len(sc) > 0 THEN filteredIdeas(gd, sc) ELSE gd.ideas
         IN  IF lvl = "clusters" THEN Len(baseIdeas)
             ELSE IF lvl = "topIdeas" /\ fc # Null
                  THEN Min(Len(InCluster(baseIdeas, fc.id)), 20)
             ELSE IF lvl = "connectedIdeas" /\ fi # Null
                  THEN 1 + Len(getConnectedIdeas(gd, fi.id))
             ELSE IF lvl = "allIdeas" /\ fc # Null
                  THEN Len(InCluster(baseIdeas, fc.id))
             ELSE Len(baseIdeas)

\* mutant: the ideas are not restricted to the focused cluster
ideasToShow_AnyCluster(gd, fc, sc) ==
    Slice(SortByConnCount(filteredIdeas(gd, sc), gd.connections), TopIdeasLimit)

\* mutant: every idea of the cluster is shown
ideasToShow_NoCap(gd, fc, sc) ==
    LET clusterIdeas == IF Len(sc) > 0 THEN InCluster(filteredIdeas(gd, sc), fc.id)
                        ELSE InCluster(gd.ideas, fc.id)
    IN  SortByConnCount(clusterIdeas, gd.connections)

\* topIdeas branch: the cluster's (filtered) ideas, ranked, the first 20
ideasToShow(gd, fc, sc) ==
    LET clusterIdeas == IF Len(sc) > 0 THEN InCluster(filteredIdeas(gd, sc), fc.id)
                        ELSE InCluster(gd.ideas, fc.id)
    IN  Slice(SortByConnCount(clusterIdeas, gd.connections), TopIdeasLimit)

\* connectedIdeas branch: the connected ideas that pass the filter
connectedShown(gd, fi, sc) ==
    LET connectedIdeas == getConnectedIdeas(gd, fi.id)
    IN  IF Len(sc) > 0
        THEN SelectSeq(connectedIdeas, LAMBDA i : i.id \in filteredIdeaIds(gd, sc))
        ELSE connectedIdeas

\* allIdeas branch
allClusterIdeas(gd, fc, sc) ==
    LET all == InCluster(gd.ideas, fc.id)
    IN  IF Len(sc) > 0
        THEN SelectSeq(all, LAMBDA i : i.id \in filteredIdeaIds(gd, sc))
        ELSE all

\* connections with both ends among the ideas drawn
BetweenVisible(gd, ideas) ==
    LET visibleIds == {i.id : i \in Range(ideas)}
    IN  SelectSeq(gd.connections,
                  LAMBDA conn : conn.source \in visibleIds /\ conn.target \in visibleIds)

\* positionMap.get(id): the position of the last node carrying the id
PositionOf(ns, id) ==
    LET hits == {k \in 1..Len(ns) : ns[k].id = id}
    IN  IF hits = {} THEN Null
        ELSE ns[CHOOSE k \in hits : \A h \in hits : h <= k].position

\* handles between two mapped positions, or the fixed pair when one is missing
HandlesFor(ns, source, target) ==
    IF PositionOf(ns, source) # Null /\ PositionOf(ns, target) # Null
    THEN getNearestHandles(PositionOf(ns, source), PositionOf(ns, target))
    ELSE [sourceHandle |-> "bottom-source", targetHandle |-> "top"]

\* stroke, width (tenths of a pixel), dash pattern and opacity (tenths)
EdgeStyle(contradictory, strength, opacity) ==
    [stroke |-> IF contradictory THEN "#dc2626" ELSE "#1f2937",
     strokeWidth |-> IF contradictory THEN Px(3) ELSE getStrokeWidth(strength),
     strokeDasharray |-> IF contradictory THEN "6,6" ELSE "undefined",
     opacity |-> opacity]

EdgeOfConn(conn, idx, ns, opacity) ==
    LET handles == HandlesFor(ns, conn.source, conn.target)
    IN  [id |-> idx, source |-> conn.source, target |-> conn.target,
         sourceHandle |-> handles.sourceHandle,
         targetHandle |-> handles.targetHandle,
         type |-> "default",
         animated |-> (conn.connection_type = "contradictory"),
         style |-> EdgeStyle(conn.connection_type = "contradictory", conn.strength, opacity)]

\* graphData.connections.find(...): the first connection between the two
FindConn(gd, a, b) ==
    LET hits == {k \in 1..Len(gd.connections) :
                    \/ (gd.connections[k].source = a /\ gd.connections[k].target = b)
                    \/ (gd.connections[k].target = a /\ gd.connections[k].source = b)}
    IN  IF hits = {} THEN Null
        ELSE gd.connections[CHOOSE k \in hits : \A j \in hits : k <= j]

newNodes(gd, lvl, fc, fi, sc) ==
    IF lvl = "clusters"
        THEN layoutClusters(filteredClusters(gd, sc), gd.ideas, gd.connections)
    ELSE IF lvl = "topIdeas" /\ fc # Null
        THEN layoutTopIdeas(ideasToShow(gd, fc, sc), gd.connections)
    ELSE IF lvl = "connectedIdeas" /\ fi # Null /\ fc # Null
        THEN layoutConnectedIdeas(fi, connectedShown(gd, fi, sc))
    ELSE IF lvl = "allIdeas" /\ fc # Null
        THEN layoutAllIdeas(allClusterIdeas(gd, fc, sc))
    ELSE <<>>

\* the edges of a level, ns being the nodes built for it
edgesBetween(gd, lvl, fc, fi, sc, ns) ==
    IF lvl = "clusters" THEN <<>>
    ELSE IF lvl = "topIdeas" /\ fc # Null
        THEN LET rel == BetweenVisible(gd, ideasToShow(gd, fc, sc))
             IN  [k \in 1..Len(rel) |-> EdgeOfConn(rel[k], k - 1, ns, 6)]
    ELSE IF lvl = "connectedIdeas" /\ fi # Null /\ fc # Null
        THEN LET shown == connectedShown(gd, fi, sc)
             IN  [k \in 1..Len(shown) |->
                    LET conn == FindConn(gd, fi.id, shown[k].id)
                        contradictory ==
                            conn # Null /\ conn.connection_type = "contradictory"
                        \* conn?.strength || 0.5
                        strength == IF conn = Null \/ conn.strength = 0 THEN 5
                                    ELSE conn.strength
                        handles == HandlesFor(ns, fi.id, shown[k].id)
                    IN  [id |-> k - 1, source |-> fi.id, target |-> shown[k].id,
                         sourceHandle |-> handles.sourceHandle,
                         targetHandle |-> handles.targetHandle,
                         type |-> "default",
                         animated |-> contradictory,
                         style |-> EdgeStyle(contradictory, strength, 7)]]
    ELSE IF lvl = "allIdeas" /\ fc # Null
        THEN LET rel == BetweenVisible(gd, allClusterIdeas(gd, fc, sc))
             IN  [k \in 1..Len(rel) |-> EdgeOfConn(rel[k], k - 1, ns, 4)]
    ELSE <<>>

newEdges(gd, lvl, fc, fi, sc) ==
    edgesBetween(gd, lvl, fc, fi, sc, newNodes(gd, lvl, fc, fi, sc))

\* the effect runs after every render whose dependencies changed; with no
\* graph data it returns before setNodes/setEdges
BuildEffect ==
    /\ nodes' = IF graphData' = Null THEN nodes
                ELSE newNodes(graphData', viewLevel', focusedCluster', focusedIdea',
                              selectedCompanies')
    /\ edges' = IF graphData' = Null THEN edges
                ELSE edgesBetween(graphData', viewLevel', focusedCluster', focusedIdea',
                                  selectedCompanies', nodes')


-----------------------------------------------------------------------------
(* History bookkeeping, read by the properties only *)

\* what the properties need of the state an operation started from
IdOf(idea) == IF idea = Null THEN 0 ELSE idea.id

PreState ==
    [viewLevel |-> viewLevel, hadSelected |-> (selectedIdea # Null),
     focusedIdea |-> IdOf(focusedIdea)]

Overflow == <<[op |-> "overflow", cluster |-> ""]>>

InitialView == viewLevel = "clusters" /\ focusedCluster = Null /\ focusedIdea = Null

\* a view transition: remembered in last and appended to path
Nav(op, cluster, idea) ==
    /\ last' = [op |-> op, idea |-> idea, pre |-> PreState]
    /\ path' = LET e == [op |-> op, cluster |-> cluster]
               IN  IF InitialView THEN <<e>>
                   ELSE IF path = Overflow \/ Len(path) >= MaxPath THEN Overflow
                   ELSE Append(path, e)

\* any other operation: remembered in last only
Other(op, idea) ==
    /\ last' = [op |-> op, idea |-> idea, pre |-> PreState]
    /\ UNCHANGED path

-----------------------------------------------------------------------------
(* Navigation handlers (page.tsx 766-777, 831-856) *)

\* mutant: the reset keeps the focused cluster
handleReset_KeepCluster ==
    /\ viewLevel' = "clusters"
    /\ focusedIdea' = Null
    /\ selectedIdea' = Null
    /\ UNCHANGED focusedCluster

\* mutant: the reset forgets the side panel
handleReset_KeepPanel ==
    /\ viewLevel' = "clusters"
    /\ focusedCluster' = Null
    /\ focusedIdea' = Null
    /\ UNCHANGED selectedIdea

handleReset ==
    /\ viewLevel' = "clusters"
    /\ focusedCluster' = Null
    /\ focusedIdea' = Null
    /\ selectedIdea' = Null

handleExpandCluster(cluster) ==
    /\ focusedCluster' = cluster
    /\ focusedIdea' = Null
    /\ viewLevel' = "topIdeas"
    /\ selectedIdea' = Null

\* mutant: the cluster focus survives the way back
handleBackToClusters_KeepCluster ==
    /\ focusedIdea' = Null
    /\ viewLevel' = "clusters"
    /\ selectedIdea' = Null
    /\ UNCHANGED focusedCluster

handleBackToClusters ==
    /\ focusedCluster' = Null
    /\ focusedIdea' = Null
    /\ viewLevel' = "clusters"
    /\ selectedIdea' = Null

\* mutant: the idea focus survives the way back
handleBackToTopIdeas_KeepIdea ==
    /\ viewLevel' = "topIdeas"
    /\ selectedIdea' = Null
    /\ UNCHANGED <<focusedCluster, focusedIdea>>

handleBackToTopIdeas ==
    /\ focusedIdea' = Null
    /\ viewLevel' = "topIdeas"
    /\ selectedIdea' = Null
    /\ UNCHANGED focusedCluster

handleExpandIdea(idea) ==
    /\ focusedIdea' = idea
    /\ viewLevel' = "connectedIdeas"
    /\ selectedIdea' = Null
    /\ UNCHANGED focusedCluster

\* the node onClick of the connectedIdeas layout (page.tsx 1056, 1095)
setSelectedIdea(idea) ==
    /\ selectedIdea' = idea
    /\ UNCHANGED <<viewLevel, focusedCluster, focusedIdea>>

\* IdeaDetailPanel onClose (page.tsx 1396)
onClose ==
    /\ selectedIdea' = Null
    /\ UNCHANGED <<viewLevel, focusedCluster, focusedIdea>>

\* mutant: a filter change sends the view back to the clusters
setSelectedCompanies_ResetView(companies) ==
    /\ selectedCompanies' = companies
    /\ viewLevel' = "clusters"
    /\ focusedCluster' = Null
    /\ focusedIdea' = Null
    /\ UNCHANGED selectedIdea

\* CompanyFilter onChange (page.tsx 1360): the state setter of the filter
setSelectedCompanies(companies) ==
    /\ selectedCompanies' = companies
    /\ UNCHANGED <<viewLevel, focusedCluster, focusedIdea, selectedIdea>>

\* CompanyFilter.toggleCompany (page.tsx 637-643)
toggleCompany(company) ==
    IF Includes(selectedCompanies, company)
    THEN setSelectedCompanies(SelectSeq(selectedCompanies, LAMBDA c : c # company))
    ELSE setSelectedCompanies(Append(selectedCompanies, company))

-----------------------------------------------------------------------------
(* The state machine *)

Init ==
    /\ graphData = Null
    /\ isLoading = TRUE
    /\ error = Null
    /\ selectedIdea = Null
    /\ viewLevel = "clusters"
    /\ focusedCluster = Null
    /\ focusedIdea = Null
    /\ selectedCompanies = <<>>
    /\ nodes = <<>>
    /\ edges = <<>>
    /\ last = [op |-> "init", idea |-> 0,
               pre |-> [viewLevel |-> "clusters", hadSelected |-> FALSE, focusedIdea |-> 0]]
    /\ path = <<>>
    /\ call = Null
    /\ result = Null
    /\ ideaGraphCache = Null
    /\ ideaGraphCacheTime = 0
    /\ clock = 0
    /\ calls = <<>>
    /\ searchPage = [query |-> "", results |-> <<>>, isLoading |-> FALSE,
                     hasSearched |-> FALSE, searchTime |-> Null, useReranker |-> FALSE]
    /\ searchRequest = Null
    /\ clearedSince = FALSE
    /\ showAllNodes = FALSE

\* the loading and the error screens replace the whole page (page.tsx 1320-1344)
PageShown == ~isLoading /\ error = Null

\* fetchData (page.tsx 780-796): getIdeaGraph resolved
FetchResolved ==
    /\ isLoading
    /\ \E data \in Payloads :
          graphData' = [ideas |-> data.nodes, connections |-> data.edges,
                        clusters |-> data.clusters]
    /\ isLoading' = FALSE
    /\ UNCHANGED <<error, selectedIdea, viewLevel, focusedCluster, focusedIdea,
                   selectedCompanies>>
    /\ BuildEffect
    /\ Other("fetchResolved", 0)
    /\ UNCHANGED offPage

\* mutant: a failed fetch leaves the page loading, so the request can end again
FetchRejected_KeepsLoading ==
    /\ isLoading
    /\ error' = [message |-> "Failed to load graph"]
    /\ UNCHANGED <<isLoading, graphData, selectedIdea, viewLevel, focusedCluster,
                   focusedIdea, selectedCompanies>>
    /\ BuildEffect
    /\ Other("fetchRejected", 0)
    /\ UNCHANGED offPage

\* fetchData: getIdeaGraph threw
FetchRejected ==
    /\ isLoading
    /\ error' = [message |-> "Failed to load graph"]
    /\ isLoading' = FALSE
    /\ UNCHANGED <<graphData, selectedIdea, viewLevel, focusedCluster, focusedIdea,
                   selectedCompanies>>
    /\ BuildEffect
    /\ Other("fetchRejected", 0)
    /\ UNCHANGED offPage

\* the window listener of RESET_CONSTELLATION_EVENT, active while mounted
LogoReset ==
    /\ handleReset
    /\ UNCHANGED <<graphData, isLoading, error, selectedCompanies>>
    /\ BuildEffect
    /\ Nav("reset", "", 0)
    /\ UNCHANGED offPage

\* a cluster card's onExpand (page.tsx 965)
ClickClusterCard ==
    /\ PageShown
    /\ \E k \in 1..Len(nodes) :
          /\ nodes[k].onClick = "handleExpandCluster"
          /\ handleExpandCluster(nodes[k].data)
          /\ Nav("expandCluster", nodes[k].data.id, 0)
    /\ UNCHANGED <<graphData, isLoading, error, selectedCompanies>>
    /\ BuildEffect
    /\ UNCHANGED offPage

\* an idea node's onClick in the topIdeas and allIdeas layouts (page.tsx 1029, 1132)
ClickIdeaNode ==
    /\ PageShown
    /\ \E k \in 1..Len(nodes) :
          /\ nodes[k].onClick = "handleExpandIdea"
          /\ handleExpandIdea(nodes[k].data)
          /\ Nav("expandIdea", "", nodes[k].data.id)
    /\ UNCHANGED <<graphData, isLoading, error, selectedCompanies>>
    /\ BuildEffect
    /\ UNCHANGED offPage

\* an idea node's onClick in the connectedIdeas layout (page.tsx 1056, 1095)
InspectIdeaNode ==
    /\ PageShown
    /\ \E k \in 1..Len(nodes) :
          /\ nodes[k].onClick = "setSelectedIdea"
          /\ setSelectedIdea(nodes[k].data)
          /\ Other("inspect", nodes[k].data.id)
    /\ UNCHANGED <<graphData, isLoading, error, selectedCompanies>>
    /\ BuildEffect
    /\ UNCHANGED offPage

\* IdeaDetailPanel onClose (page.tsx 1396); the panel renders only with an idea
ClosePanel ==
    /\ PageShown
    /\ selectedIdea # Null
    /\ onClose
    /\ UNCHANGED <<graphData, isLoading, error, selectedCompanies>>
    /\ BuildEffect
    /\ Other("closePanel", 0)
    /\ UNCHANGED offPage

\* ViewIndicator "Main" (page.tsx 477, 490-495): not rendered at clusters
BackToClusters ==
    /\ PageShown
    /\ viewLevel # "clusters"
    /\ handleBackToClusters
    /\ UNCHANGED <<graphData, isLoading, error, selectedCompanies>>
    /\ BuildEffect
    /\ Nav("backToClusters", "", 0)
    /\ UNCHANGED offPage

\* ViewIndicator cluster breadcrumb (page.tsx 497-511): rendered with a cluster
\* name, bound only away from topIdeas
BackToTopIdeas ==
    /\ PageShown
    /\ viewLevel # "clusters"
    /\ focusedCluster # Null /\ focusedCluster.name # ""
    /\ viewLevel # "topIdeas"
    /\ handleBackToTopIdeas
    /\ UNCHANGED <<graphData, isLoading, error, selectedCompanies>>
    /\ BuildEffect
    /\ Nav("backToTopIdeas", "", 0)
    /\ UNCHANGED offPage

\* a checkbox of the company dropdown (page.tsx 708-727): one per available company
ToggleCompany ==
    /\ PageShown
    /\ \E company \in availableCompanies(graphData, viewLevel, focusedCluster, focusedIdea) :
          toggleCompany(company)
    /\ UNCHANGED <<graphData, isLoading, error>>
    /\ BuildEffect
    /\ Other("toggleCompany", 0)
    /\ UNCHANGED offPage

\* "Clear all" (page.tsx 688-695): rendered with a non-empty selection
ClearAll ==
    /\ PageShown
    /\ Len(selectedCompanies) > 0
    /\ setSelectedCompanies(<<>>)
    /\ UNCHANGED <<graphData, isLoading, error>>
    /\ BuildEffect
    /\ Other("clearAll", 0)
    /\ UNCHANGED offPage

Next ==
    \/ FetchResolved
    \/ FetchRejected
    \/ LogoReset
    \/ ClickClusterCard
    \/ ClickIdeaNode
    \/ InspectIdeaNode
    \/ ClosePanel
    \/ BackToClusters
    \/ BackToTopIdeas
    \/ ToggleCompany
    \/ ClearAll

Spec == Init /\ [][Next]_vars

\* fetchData (page.tsx 780-796): getIdeaGraph resolved with the large payload
FetchResolvedLarge ==
    /\ isLoading
    /\ graphData' = [ideas |-> LargePayload.nodes, connections |-> LargePayload.edges,
                     clusters |-> LargePayload.clusters]
    /\ isLoading' = FALSE
    /\ UNCHANGED <<error, selectedIdea, viewLevel, focusedCluster, focusedIdea,
                   selectedCompanies>>
    /\ BuildEffect
    /\ Other("fetchResolved", 0)
    /\ UNCHANGED offPage

NextLarge ==
    \/ FetchResolvedLarge
    \/ FetchRejected
    \/ LogoReset
    \/ ClickClusterCard
    \/ ClickIdeaNode
    \/ InspectIdeaNode
    \/ ClosePanel
    \/ BackToClusters
    \/ BackToTopIdeas
    \/ ToggleCompany
    \/ ClearAll

\* the same page, loading a cluster larger than the topIdeas view draws
SpecLarge == Init /\ [][NextLarge]_vars


-----------------------------------------------------------------------------
(* Properties *)

NavOps == {"reset", "expandCluster", "expandIdea", "backToTopIdeas", "backToClusters"}
FilterOps == {"toggleCompany", "clearAll"}

\* C1: in every reachable state, whatever view transitions and filter
\* changes led to it, focusedCluster is set whenever the level is not
\* clusters, focusedIdea is set exactly at level connectedIdeas, and both
\* are null at level clusters.
C1_FocusMatchesLevel ==
    /\ viewLevel \in ViewLevel
    /\ (viewLevel # "clusters" => focusedCluster # Null)
    /\ (focusedIdea # Null <=> viewLevel = "connectedIdeas")
    /\ (viewLevel = "clusters" => focusedCluster = Null /\ focusedIdea = Null)

\* a filter change made while an idea is focused
C1_Witness ==
    /\ viewLevel = "connectedIdeas"
    /\ focusedIdea # Null /\ focusedCluster # Null
    /\ last.op \in FilterOps
    /\ Len(selectedCompanies) > 0

\* C2: the round trip select cluster C, select idea I, back to top ideas,
\* back to clusters, started in the initial view state, ends exactly in level
\* clusters with no focused cluster and no focused idea, for every cluster C
\* and idea I the run can select.
C2_RoundTrip ==
    ( /\ Len(path) = 4
      /\ path[1].op = "expandCluster"
      /\ path[2].op = "expandIdea"
      /\ path[3].op = "backToTopIdeas"
      /\ path[4].op = "backToClusters" )
    => (viewLevel = "clusters" /\ focusedCluster = Null /\ focusedIdea = Null)

\* the four transitions have been taken, on the second cluster and its idea
C2_Witness ==
    /\ Len(path) = 4
    /\ path[1].op = "expandCluster" /\ path[1].cluster = ClusterIdTable[2]
    /\ path[2].op = "expandIdea"
    /\ path[3].op = "backToTopIdeas"
    /\ path[4].op = "backToClusters"

\* C3: whenever an idea is focused it belongs to the focused cluster, under
\* every company filter.
C3_FocusedIdeaInFocusedCluster ==
    focusedIdea # Null =>
        (focusedCluster # Null /\ focusedIdea.cluster_id = focusedCluster.id)

\* an idea is focused and the filter now in force does not match it
C3_Witness ==
    /\ focusedIdea # Null
    /\ Len(selectedCompanies) > 0
    /\ ~MatchesFilter(focusedIdea, selectedCompanies)


ClickIdeaOps == {"inspect", "expandIdea"}

\* C4 (as claimed): at level connectedIdeas, selecting another idea J keeps
\* the level and makes J the focused idea.
C4_SelectRefocuses ==
    ( /\ last.op \in ClickIdeaOps
      /\ last.pre.viewLevel = "connectedIdeas"
      /\ last.idea # last.pre.focusedIdea )
    => (viewLevel = "connectedIdeas" /\ IdOf(focusedIdea) = last.idea)

\* C4 (amended): at level connectedIdeas, selecting an idea J keeps the level,
\* leaves the focused idea as it was and makes J the idea inspected in the
\* side panel.
C4_SelectInspects ==
    (last.op \in ClickIdeaOps /\ last.pre.viewLevel = "connectedIdeas")
    => /\ viewLevel = "connectedIdeas"
       /\ IdOf(focusedIdea) = last.pre.focusedIdea
       /\ IdOf(selectedIdea) = last.idea

\* a connected idea, not the focused one, has just been selected
C4_Witness ==
    /\ last.op \in ClickIdeaOps
    /\ last.pre.viewLevel = "connectedIdeas"
    /\ last.idea # last.pre.focusedIdea
    /\ Len(nodes) > 1

\* C5 (as claimed): at level topIdeas a "show all" transition is available:
\* some step leads to level allIdeas with the focused idea cleared and the
\* focused cluster unchanged.
C5_ShowAllAvailable ==
    (PageShown /\ viewLevel = "topIdeas")
    => ENABLED (/\ viewLevel' = "allIdeas"
                /\ focusedIdea' = Null
                /\ focusedCluster' = focusedCluster
                /\ Next)

\* C6: every view transition leaves the inspected-idea selection empty,
\* whatever it was; the explicit dismiss empties it and changes nothing else.
C6_TransitionsClearPanel ==
    [][ (last'.op \in NavOps \cup {"closePanel"})
        => /\ selectedIdea' = Null
           /\ (last'.op = "closePanel"
               => UNCHANGED <<graphData, isLoading, error, viewLevel, focusedCluster,
                              focusedIdea, selectedCompanies, nodes, edges>>) ]_vars

\* a view transition has just cleared a panel that was showing an idea
C6_Witness ==
    /\ last.op \in NavOps
    /\ last.pre.hadSelected
    /\ selectedIdea = Null

\* C7: a change of the company filter (toggle, clear all), at any level,
\* leaves level, focused cluster and focused idea unchanged.
C7_FilterKeepsView ==
    [][ (last'.op \in FilterOps)
        => UNCHANGED <<viewLevel, focusedCluster, focusedIdea>> ]_vars

\* the filter has just been cleared below the clusters level
C7_Witness ==
    /\ last.op = "clearAll"
    /\ viewLevel = "topIdeas"
    /\ focusedCluster # Null


\* the idea_count column of the derived cluster list, and its sum
FilteredCounts ==
    LET fc == filteredClusters(graphData, selectedCompanies)
    IN  [k \in 1..Len(fc) |-> fc[k].idea_count]

\* C8: for every loaded idea/cluster set and every filter set,
\* the idea_counts of filteredClusters add up to the number of filteredIdeas.
C8_CountsPartitionIdeas ==
    graphData # Null =>
        SumSeq(FilteredCounts) = Len(filteredIdeas(graphData, selectedCompanies))

\* C9: filteredClusters has one entry per fetched cluster, in the fetched
\* order, equal to the fetched record but for idea_count, which is the number
\* of filteredIdeas of that cluster; clusters counting zero are kept and the
\* fetched records keep their own counts.
C9_FilteredClusters ==
    graphData # Null =>
        LET fc == filteredClusters(graphData, selectedCompanies)
            fi == filteredIdeas(graphData, selectedCompanies)
        IN  /\ Len(fc) = Len(graphData.clusters)
            /\ \A k \in 1..Len(fc) :
                  /\ fc[k].id = graphData.clusters[k].id
                  /\ fc[k].name = graphData.clusters[k].name
                  /\ fc[k].idea_count
                        = Cardinality({j \in 1..Len(fi) : fi[j].cluster_id = fc[k].id})
                  /\ graphData.clusters[k].idea_count
                        = Cardinality({j \in 1..Len(graphData.ideas) :
                                          graphData.ideas[j].cluster_id = fc[k].id})

\* under the filter a cluster that has ideas counts zero, and another does not
C9_Witness ==
    /\ graphData # Null
    /\ Len(selectedCompanies) > 0
    /\ LET fc == filteredClusters(graphData, selectedCompanies)
       IN  /\ \E k \in 1..Len(fc) :
                 fc[k].idea_count = 0 /\ graphData.clusters[k].idea_count > 0
           /\ \E k \in 1..Len(fc) : fc[k].idea_count > 0

\* C10: filteredIdeas is, in the fetched order, the ideas whose company list
\* shares a company with the filter set; with an empty filter set it is every
\* idea, those with no company included.
C10_FilteredIdeas ==
    graphData # Null =>
        filteredIdeas(graphData, selectedCompanies)
            = SelectSeq(graphData.ideas,
                        LAMBDA i :
                            \/ Range(selectedCompanies) = {}
                            \/ Range(extractCompaniesFromTitle(i.episode_title))
                                   \cap Range(selectedCompanies) # {})

\* a filter keeps an idea for its second company and drops an idea with none
C10_Witness ==
    /\ graphData # Null
    /\ Len(selectedCompanies) > 0
    /\ LET fi == filteredIdeas(graphData, selectedCompanies)
       IN  /\ \E i \in Range(fi) :
                 LET cs == extractCompaniesFromTitle(i.episode_title)
                 IN  Len(cs) = 2 /\ ~Includes(selectedCompanies, cs[1])
           /\ \E i \in Range(graphData.ideas) :
                 extractCompaniesFromTitle(i.episode_title) = <<>> /\ i \notin Range(fi)

-----------------------------------------------------------------------------
(* Filter sets the properties quantify over *)

AllCompanies == UNION {Range(extractCompaniesFromTitle(Titles[k])) : k \in 1..Len(Titles)}

\* every selection the checkboxes can build: companies in any order, none twice
FilterLists ==
    UNION { {f \in [1..n -> AllCompanies] : \A i, j \in 1..n : f[i] = f[j] => i = j} :
              n \in 0..Cardinality(AllCompanies) }

\* number of connection ends at an idea, over the whole fetched connection list
Degree(id) ==
    Cardinality({k \in 1..Len(graphData.connections) : graphData.connections[k].source = id})
    + Cardinality({k \in 1..Len(graphData.connections) : graphData.connections[k].target = id})

\* position of an idea's node in a node list (0 when it has none)
RankIn(ns, id) ==
    IF \E k \in 1..Len(ns) : ns[k].id = id
    THEN CHOOSE k \in 1..Len(ns) : ns[k].id = id
    ELSE 0

TopIdeasShown == graphData # Null /\ viewLevel = "topIdeas" /\ focusedCluster # Null

\* C11: in the topIdeas view the nodes are ranked by total connection degree
\* over the unfiltered connections, and any two ideas shown under the current
\* filter and under any other filter are in the same relative order in both.
C11_RankOrderFilterIndependent ==
    TopIdeasShown =>
        /\ \A i, j \in 1..Len(nodes) :
              i < j => Degree(nodes[i].id) >= Degree(nodes[j].id)
        /\ \A f2 \in FilterLists :
              LET other == newNodes(graphData, viewLevel, focusedCluster, focusedIdea, f2)
              IN  \A i, j \in 1..Len(nodes) :
                     (i < j /\ RankIn(other, nodes[i].id) > 0 /\ RankIn(other, nodes[j].id) > 0)
                        => RankIn(other, nodes[i].id) < RankIn(other, nodes[j].id)

\* a filter shows three ideas of the cluster, the ranking moves a later idea
\* ahead of an earlier one, and without the filter a fourth idea ranks among them
C11_Witness ==
    /\ TopIdeasShown
    /\ Len(selectedCompanies) > 0
    /\ Len(nodes) >= 3
    /\ \E i, j \in 1..Len(nodes) :
          i < j /\ Degree(nodes[i].id) > Degree(nodes[j].id) /\ nodes[i].id > nodes[j].id
    /\ LET all == newNodes(graphData, viewLevel, focusedCluster, focusedIdea, <<>>)
       IN  /\ Len(all) > Len(nodes)
           /\ \E k \in 1..Len(all) :
                 /\ RankIn(nodes, all[k].id) = 0
                 /\ k < Len(all)

\* the ideas of the nodes a layout returned, in node order
IdeasOf(ns) == [k \in 1..Len(ns) |-> ns[k].data]

\* C12: at level clusters, with or without a filter, the top ideas previewed
\* on each cluster card are the first five ideas, in rank order, of the ideas
\* the topIdeas view of that cluster shows.
C12_CardPreviewMatchesDrillIn ==
    (graphData # Null /\ viewLevel = "clusters") =>
        \A k \in 1..Len(nodes) :
            nodes[k].topIdeas
                = Slice(IdeasOf(newNodes(graphData, "topIdeas", nodes[k].data, Null,
                                         selectedCompanies)),
                        CardTopIdeas)

ConnectedShownState ==
    graphData # Null /\ viewLevel = "connectedIdeas" /\ focusedIdea # Null /\ focusedCluster # Null

\* ids of the fetched ideas that share a connection with the focused idea and
\* pass the filter sc
ConnectedPassing(sc) ==
    {i.id : i \in {j \in Range(graphData.ideas) :
                     /\ \E c \in Range(graphData.connections) :
                           \/ (c.source = focusedIdea.id /\ c.target = j.id)
                           \/ (c.target = focusedIdea.id /\ c.source = j.id)
                     /\ (Len(sc) = 0 \/
                         \E company \in Range(extractCompaniesFromTitle(j.episode_title)) :
                             Includes(sc, company))}}

\* C13: at level connectedIdeas, under the current filter and under every
\* other filter, there is one edge per idea that is connected to the focused
\* idea and passes the filter, each edge runs from the focused idea to one of
\* those ideas, and the focused idea's node is the first node, at (0,0); with
\* no connection the output is that one node and no edge.
C13_ConnectedEdges ==
    ConnectedShownState =>
        /\ nodes = newNodes(graphData, viewLevel, focusedCluster, focusedIdea, selectedCompanies)
        /\ edges = newEdges(graphData, viewLevel, focusedCluster, focusedIdea, selectedCompanies)
        /\ \A sc \in FilterLists :
              LET ns == newNodes(graphData, viewLevel, focusedCluster, focusedIdea, sc)
                  es == edgesBetween(graphData, viewLevel, focusedCluster, focusedIdea, sc, ns)
              IN  /\ Len(es) = Cardinality(ConnectedPassing(sc))
                  /\ \A k \in 1..Len(es) :
                        es[k].source = focusedIdea.id /\ es[k].target \in ConnectedPassing(sc)
                  /\ \A k, l \in 1..Len(es) : es[k].target = es[l].target => k = l
                  /\ Len(ns) = 1 + Len(es)
                  /\ ns[1].id = focusedIdea.id
                  /\ ns[1].position = [x |-> 0, y |-> 0]
                  /\ \A k \in 2..Len(ns) : ns[k].id # focusedIdea.id

\* an active filter removes one of three connected ideas and keeps two
C13_Witness ==
    /\ ConnectedShownState
    /\ Len(selectedCompanies) > 0
    /\ Cardinality(ConnectedPassing(<<>>)) >= 3
    /\ Len(edges) = 2
    /\ Len(edges) < Cardinality(ConnectedPassing(<<>>))
    /\ Len(nodes) = 3
    /\ nodes[1].position = [x |-> 0, y |-> 0]

\* pushDistance = 530
PushDistance == Px(530)

\* C14: at level connectedIdeas no connected idea's node is at the center
\* position (0,0): every node but the first is at distance at least the push
\* distance from the origin, for every number of connected ideas drawn.
C14_ConnectedAwayFromCenter ==
    ConnectedShownState =>
        \A k \in 2..Len(nodes) :
            /\ nodes[k].position # [x |-> 0, y |-> 0]
            /\ nodes[k].position.x * nodes[k].position.x
                 + nodes[k].position.y * nodes[k].position.y
               >= PushDistance * PushDistance

\* the companies named by the titles of the ideas a node list draws
CompaniesDrawn(ns) ==
    UNION {Range(extractCompaniesFromTitle(ns[k].data.episode_title)) : k \in 1..Len(ns)}

\* C15: at levels topIdeas and connectedIdeas, whatever the filter,
\* availableCompanies is the set of companies of exactly the ideas whose
\* nodes are drawn, in the state every view-state change leaves.
C15_AvailableMatchesDrawn ==
    (graphData # Null /\ viewLevel \in {"topIdeas", "connectedIdeas"}) =>
        availableCompanies(graphData, viewLevel, focusedCluster, focusedIdea)
            = CompaniesDrawn(nodes)

\* the companies named by the titles of a list of ideas
CompaniesOf(ideas) ==
    UNION {Range(extractCompaniesFromTitle(ideas[k].episode_title)) : k \in 1..Len(ideas)}

\* C16: at level clusters availableCompanies is the set of companies of all
\* fetched ideas, whatever the filter: selecting or clearing companies never
\* removes a company from the offered list.
C16_ClustersCompaniesUnfiltered ==
    (graphData # Null /\ viewLevel = "clusters") =>
        availableCompanies(graphData, viewLevel, focusedCluster, focusedIdea)
            = CompaniesOf(graphData.ideas)

\* a filter change at level clusters left a filter under which the ideas that
\* pass name fewer companies than are offered
C16_Witness ==
    /\ graphData # Null
    /\ viewLevel = "clusters"
    /\ last.op \in FilterOps
    /\ Len(selectedCompanies) > 0
    /\ CompaniesOf(filteredIdeas(graphData, selectedCompanies))
         # availableCompanies(graphData, viewLevel, focusedCluster, focusedIdea)
    /\ \A company \in Range(selectedCompanies) :
          company \in availableCompanies(graphData, viewLevel, focusedCluster, focusedIdea)

\* the nodes of type idea in a node list
IdeaNodes(ns) == SelectSeq(ns, LAMBDA node : node.type = "idea")

\* C17: at the levels that draw idea nodes, for every filter, the
\* visible-idea-count of the header is the number of idea nodes drawn: at
\* topIdeas the capped number shown, at connectedIdeas the pinned idea plus
\* the connected ideas drawn.
C17_CountMatchesDrawn ==
    (graphData # Null /\ viewLevel # "clusters") =>
        visibleIdeaCount(graphData, viewLevel, focusedCluster, focusedIdea, selectedCompanies)
            = Len(IdeaNodes(nodes))

\* the ideas of the focused cluster that pass the current filter
FocusedClusterFiltered ==
    {i \in Range(filteredIdeas(graphData, selectedCompanies)) : i.cluster_id = focusedCluster.id}

\* C18: in the clusters state every fetched cluster has a card whose click
\* selects it, also a cluster with no idea passing the filter; the state a
\* selection leaves is topIdeas with that cluster focused and no error, and
\* when no idea of the cluster passes the filter it has no node and no edge.
C18_EmptyClusterSelectable ==
    /\ (PageShown /\ graphData # Null /\ viewLevel = "clusters") =>
          \A c \in 1..Len(graphData.clusters) :
              \E k \in 1..Len(nodes) :
                  /\ nodes[k].onClick = "handleExpandCluster"
                  /\ nodes[k].data.id = graphData.clusters[c].id
    /\ last.op = "expandCluster" =>
          /\ viewLevel = "topIdeas"
          /\ focusedCluster # Null
          /\ focusedIdea = Null
          /\ error = Null
          /\ ~isLoading
          /\ (path # Overflow => focusedCluster.id = path[Len(path)].cluster)
          /\ (FocusedClusterFiltered = {} => nodes = <<>> /\ edges = <<>>)

\* a cluster that has ideas, none of which passes the active filter, was
\* selected
C18_Witness ==
    /\ last.op = "expandCluster"
    /\ Len(selectedCompanies) > 0
    /\ focusedCluster.idea_count = 0
    /\ \E i \in Range(graphData.ideas) : i.cluster_id = focusedCluster.id
    /\ FocusedClusterFiltered = {}
    /\ viewLevel = "topIdeas"
    /\ nodes = <<>>
    /\ edges = <<>>
    /\ error = Null

\* C19: at level topIdeas at most 20 idea nodes are drawn; they are ideas of
\* the focused cluster that pass the filter, as many as there are up to 20,
\* none ranked below an idea that is left out; and every edge has its source
\* and its target among the drawn nodes.
C19_TopTwentyNoDangling ==
    TopIdeasShown =>
        LET drawn == {nodes[k].id : k \in 1..Len(nodes)}
            passing == {i.id : i \in FocusedClusterFiltered}
        IN  /\ Len(nodes) <= TopIdeasLimit
            /\ Cardinality(drawn) = Len(nodes)
            /\ drawn \subseteq passing
            /\ Len(nodes) = Min(Cardinality(passing), TopIdeasLimit)
            /\ \A d \in drawn : \A p \in passing \ drawn : Degree(d) >= Degree(p)
            /\ \A k \in 1..Len(edges) :
                  edges[k].source \in drawn /\ edges[k].target \in drawn

\* under an active filter more than 20 ideas of the focused cluster pass, 20
\* are drawn with edges among them, and a connection to an idea the filter
\* removed is not drawn
C19_Witness ==
    /\ TopIdeasShown
    /\ Len(selectedCompanies) > 0
    /\ Cardinality(FocusedClusterFiltered) > TopIdeasLimit
    /\ Len(nodes) = TopIdeasLimit
    /\ Len(edges) > 0
    /\ Len(edges) < Len(graphData.connections)

\* the selections that hold the same companies as the current one
SameCompanies == {f \in FilterLists : Range(f) = Range(selectedCompanies)}

\* C20: for the loaded payload and the current view state the node and edge
\* lists (ids, positions, handles, styles) are a function of the set of
\* selected companies: building them again under the same selection, or
\* under the same companies selected in any other order, gives the lists
\* that are shown.
C20_OutputBySelectedSet ==
    graphData # Null =>
        \A f \in SameCompanies :
            LET ns == newNodes(graphData, viewLevel, focusedCluster, focusedIdea, f)
            IN  /\ ns = nodes
                /\ edgesBetween(graphData, viewLevel, focusedCluster, focusedIdea, f, ns) = edges

\* two companies were selected one after the other, the filter removes an
\* idea of the focused cluster, and nodes with an edge between them are drawn
C20_Witness ==
    /\ graphData # Null
    /\ last.op = "toggleCompany"
    /\ Len(selectedCompanies) = 2
    /\ Cardinality(SameCompanies) = 2
    /\ viewLevel = "topIdeas"
    /\ Len(nodes) >= 2
    /\ Len(edges) >= 1
    /\ Len(nodes) < Len(newNodes(graphData, viewLevel, focusedCluster, focusedIdea, <<>>))

\* the "Graph Not Available" screen (page.tsx 1331-1344) with nothing behind it
GraphNotAvailable ==
    /\ error # Null
    /\ ~isLoading
    /\ graphData = Null
    /\ nodes = <<>>
    /\ edges = <<>>
    /\ viewLevel = "clusters"
    /\ focusedCluster = Null
    /\ focusedIdea = Null
    /\ selectedIdea = Null
    /\ selectedCompanies = <<>>

\* C22: a failed graph fetch leaves loading false, the error set and no graph
\* data; from then on every step keeps the error, the missing data, the empty
\* node and edge lists, the view state and the filter, and no step is the end
\* of another fetch.
C22_FetchFailureTerminal ==
    [][/\ (last'.op = "fetchRejected" => GraphNotAvailable')
       /\ (error # Null =>
              /\ GraphNotAvailable
              /\ GraphNotAvailable'
              /\ error' = error
              /\ last'.op \notin {"fetchResolved", "fetchRejected"})]_vars

\* the logo reset reached the page after its fetch had failed
C22_Witness ==
    /\ error # Null
    /\ last.op = "reset"
    /\ ~isLoading
    /\ graphData = Null
    /\ nodes = <<>>

-----------------------------------------------------------------------------
(* The layout and edge helpers called on their own, on arguments drawn from *)
(* bounded sets: call holds the helper's name and arguments, result what it *)
(* returned.  A behaviour makes one call; the page is not involved.         *)

\* n ideas of one cluster, ids 1..n
IdeaList(n) ==
    [k \in 1..n |-> [id |-> k, cluster_id |-> ClusterIdTable[1], episode_title |-> TitleStripe]]

\* connection lists over n ideas: none; every other idea connected to the last
FnConnections(n) ==
    {<<>>, [k \in 1..(n - 1) |-> MkConn(n, k, "similar", 7)]}

\* layoutTopIdeas on the ideas the topIdeas branch can pass: at most 20
CallLayoutTopIdeas ==
    /\ call = Null
    /\ \E n \in 0..TopIdeasLimit : \E allConnections \in FnConnections(n) :
          /\ call' = [fn |-> "layoutTopIdeas", ideas |-> IdeaList(n),
                      allConnections |-> allConnections]
          /\ result' = layoutTopIdeas(IdeaList(n), allConnections)
    /\ UNCHANGED <<pageVars, libVars, searchVars, showAllNodes>>

\* bounds of the helper calls
Grid == 2
MaxStrength == 10
MaxAllIdeas == 85
MaxCards == 7

\* endpoint positions: the points of a square grid, one pixel apart
GridPoints == {[x |-> Px(a), y |-> Px(b)] : a, b \in (0 - Grid)..Grid}

\* getNearestHandles on any two grid points
CallGetNearestHandles ==
    /\ call = Null
    /\ \E sourcePos, targetPos \in GridPoints :
          /\ call' = [fn |-> "getNearestHandles", sourcePos |-> sourcePos,
                      targetPos |-> targetPos]
          /\ result' = getNearestHandles(sourcePos, targetPos)
    /\ UNCHANGED <<pageVars, libVars, searchVars, showAllNodes>>

\* the edges the topIdeas branch draws (page.tsx 1190-1213) for three
\* connections among four ideas shown, of any strength in tenths, the first
\* of either type
CallEdgeOfConn ==
    /\ call = Null
    /\ \E ty \in {"similar", "contradictory"} : \E s1, s2, s3 \in 0..MaxStrength :
          LET connections == <<MkConn(1, 2, ty, s1), MkConn(2, 3, "similar", s2),
                                MkConn(3, 4, "similar", s3)>>
              ns == layoutTopIdeas(IdeaList(4), connections)
          IN  /\ call' = [fn |-> "edges", connections |-> connections]
              /\ result' = [k \in 1..Len(connections) |->
                               EdgeOfConn(connections[k], k - 1, ns, 6)]
    /\ UNCHANGED <<pageVars, libVars, searchVars, showAllNodes>>

\* layoutAllIdeas on idea lists of every length up to MaxAllIdeas
CallLayoutAllIdeas ==
    /\ call = Null
    /\ \E n \in 0..MaxAllIdeas :
          /\ call' = [fn |-> "layoutAllIdeas", ideas |-> IdeaList(n)]
          /\ result' = layoutAllIdeas(IdeaList(n))
    /\ UNCHANGED <<pageVars, libVars, searchVars, showAllNodes>>

\* cluster lists of a given length: ids in data-source order, the idea counts
\* all zero, rising or falling along the list
FnClusters(count) ==
    { [c \in 1..count |-> [id |-> ToString(c), name |-> ToString(c), idea_count |-> f[c]]] :
        f \in { [c \in 1..count |-> 0], [c \in 1..count |-> c],
                [c \in 1..count |-> count - c] } }

\* layoutClusters on cluster lists of every length up to MaxCards
CallLayoutClusters ==
    /\ call = Null
    /\ \E count \in 0..MaxCards : \E clusters \in FnClusters(count) :
          /\ call' = [fn |-> "layoutClusters", clusters |-> clusters]
          /\ result' = layoutClusters(clusters, IdeaList(3), <<>>)
    /\ UNCHANGED <<pageVars, libVars, searchVars, showAllNodes>>

NextFunctions ==
    \/ CallLayoutTopIdeas
    \/ CallGetNearestHandles
    \/ CallEdgeOfConn
    \/ CallLayoutAllIdeas
    \/ CallLayoutClusters

\* the helpers on their own
SpecFunctions == Init /\ [][NextFunctions]_vars

-----------------------------------------------------------------------------
(* Properties of the layout and edge helpers *)

Origin == [x |-> 0, y |-> 0]

\* squared distance of two positions (tenths of a pixel, squared)
DistSq(p, q) == (p.x - q.x) * (p.x - q.x) + (p.y - q.y) * (p.y - q.y)

\* p is on the circle of the given radius (whole pixels) around the origin,
\* to a fifth of a pixel
OnCircle(p, radius) == Abs(DistSq(p, Origin) - Px(radius) * Px(radius)) <= 4 * Px(radius)

\* the nodes ns[from..to] are the consecutive slots of a ring of that radius:
\* on the circle, neighbours (the last and the first included) equally far
\* apart to two fifths of a pixel, no two at one place
EvenRing(ns, from, to, radius) ==
    LET next(k) == IF k = to THEN from ELSE k + 1
    IN  /\ \A k \in from..to : OnCircle(ns[k].position, radius)
        /\ \A k, l \in from..to :
              Abs(DistSq(ns[k].position, ns[next(k)].position)
                  - DistSq(ns[l].position, ns[next(l)].position)) <= 16 * Px(radius)
        /\ \A k, l \in from..to : k # l => ns[k].position # ns[l].position

\* C24: layoutTopIdeas on n ideas, 1 <= n <= 20, returns one node per idea;
\* the first node is at the origin and is the only one flagged as center, the
\* next min(6, n - 1) nodes are distinct evenly spaced slots of the inner ring
\* (radius 790), the remaining nodes distinct evenly spaced slots of the outer
\* ring (radius 1430), and no two nodes share a position.
C24_TopIdeasRings ==
    (call # Null /\ call.fn = "layoutTopIdeas" /\ Len(call.ideas) >= 1) =>
        LET n == Len(call.ideas)
            innerRingCount == Min(6, n - 1)
        IN  /\ Len(result) = n
            /\ \A k \in 1..n : Cardinality({j \in 1..n : result[j].id = call.ideas[k].id}) = 1
            /\ result[1].position = Origin
            /\ \A j \in 1..n : result[j].isCenter <=> j = 1
            /\ EvenRing(result, 2, 1 + innerRingCount, 790)
            /\ EvenRing(result, 2 + innerRingCount, n, 1430)
            /\ \A j, k \in 1..n : j # k => result[j].position # result[k].position

\* twenty ideas, the last one the best connected: it is the center, six nodes
\* are on the inner ring and thirteen on the outer ring
C24_Witness ==
    /\ call # Null
    /\ call.fn = "layoutTopIdeas"
    /\ Len(call.ideas) = TopIdeasLimit
    /\ Len(result) = TopIdeasLimit
    /\ result[1].id = TopIdeasLimit
    /\ result[1].isCenter
    /\ OnCircle(result[7].position, 790)
    /\ OnCircle(result[8].position, 1430)
    /\ OnCircle(result[20].position, 1430)

\* the source handle on a side of a node
SourceHandleOn(side) ==
    CASE side = "left" -> "left-source"
      [] side = "right" -> "right-source"
      [] side = "top" -> "top-source"
      [] side = "bottom" -> "bottom-source"

\* C25: for two distinct endpoint positions getNearestHandles returns one of
\* the four pairs (right-source, left), (bottom-source, top), (left-source,
\* right), (top-source, bottom); the source handle is on the side facing the
\* target (the direction is within 45 degrees of that side's axis, y growing
\* downward) and the target handle on the opposite side; and with source and
\* target swapped the same two sides are used, exchanged, also when the
\* direction is on a sector boundary.
C25_HandlesFaceAndSwap ==
    (call # Null /\ call.fn = "getNearestHandles" /\ call.sourcePos # call.targetPos) =>
        LET dx == call.targetPos.x - call.sourcePos.x
            dy == call.targetPos.y - call.sourcePos.y
            back == getNearestHandles(call.targetPos, call.sourcePos)
        IN  /\ \/ result = [sourceHandle |-> "right-source", targetHandle |-> "left"]
                  /\ dx > 0 /\ Abs(dy) <= dx
               \/ result = [sourceHandle |-> "bottom-source", targetHandle |-> "top"]
                  /\ dy > 0 /\ Abs(dx) <= dy
               \/ result = [sourceHandle |-> "left-source", targetHandle |-> "right"]
                  /\ dx < 0 /\ Abs(dy) <= -dx
               \/ result = [sourceHandle |-> "top-source", targetHandle |-> "bottom"]
                  /\ dy < 0 /\ Abs(dx) <= -dy
            /\ back.sourceHandle = SourceHandleOn(result.targetHandle)
            /\ result.sourceHandle = SourceHandleOn(back.targetHandle)

\* the target is on the diagonal below and to the right of the source: the
\* boundary of 45 degrees
C25_Witness ==
    /\ call # Null
    /\ call.fn = "getNearestHandles"
    /\ call.targetPos.x - call.sourcePos.x > 0
    /\ call.targetPos.y - call.sourcePos.y = call.targetPos.x - call.sourcePos.x
    /\ result = [sourceHandle |-> "bottom-source", targetHandle |-> "top"]
    /\ getNearestHandles(call.targetPos, call.sourcePos)
         = [sourceHandle |-> "top-source", targetHandle |-> "bottom"]

\* the edges of a call that belong to similar connections
SimilarEdges == {k \in 1..Len(result) : call.connections[k].connection_type = "similar"}

\* every contradictory edge drawn has stroke weight 3 and dash pattern "6,6",
\* every similar edge a weight in [2, 6] that does not fall when the strength rises
WeightsInRange ==
    /\ \A k \in 1..Len(result) :
          call.connections[k].connection_type = "contradictory" =>
              /\ result[k].style.strokeWidth = Px(3)
              /\ result[k].style.strokeDasharray = "6,6"
    /\ \A k \in SimilarEdges :
          /\ result[k].style.strokeWidth >= Px(2)
          /\ result[k].style.strokeWidth <= Px(6)
    /\ \A k, l \in SimilarEdges :
          call.connections[k].strength <= call.connections[l].strength
              => result[k].style.strokeWidth <= result[l].style.strokeWidth

\* the weights of the similar edges k, l, m are on one line over their strengths
OnOneLine(k, l, m) ==
    (result[l].style.strokeWidth - result[k].style.strokeWidth)
        * (call.connections[m].strength - call.connections[k].strength)
    = (result[m].style.strokeWidth - result[k].style.strokeWidth)
        * (call.connections[l].strength - call.connections[k].strength)

\* C26 as stated: a similar edge's stroke weight is a non-decreasing linear
\* function of its strength over [0, 1] with values in [2, 6]; a contradictory
\* edge has weight 3 and dash pattern "6,6" whatever its strength.
C26_StrokeLinear ==
    (call # Null /\ call.fn = "edges") =>
        /\ WeightsInRange
        /\ \A k, l, m \in SimilarEdges :
              (\A e \in {k, l, m} : call.connections[e].strength <= 10) => OnOneLine(k, l, m)

\* C26 amended: a similar edge's stroke weight is 2 for every strength up to
\* 0.5, a linear function of the strength from 2 at 0.5 to 6 at 1, and 6
\* above; it is non-decreasing with values in [2, 6]; a contradictory edge has
\* weight 3 and dash pattern "6,6" whatever its strength.
C26_StrokeClamped ==
    (call # Null /\ call.fn = "edges") =>
        /\ WeightsInRange
        /\ \A k \in SimilarEdges :
              /\ call.connections[k].strength <= 5 => result[k].style.strokeWidth = Px(2)
              /\ call.connections[k].strength >= 10 => result[k].style.strokeWidth = Px(6)
        /\ \A k, l, m \in SimilarEdges :
              (\A e \in {k, l, m} : call.connections[e].strength \in 5..10) => OnOneLine(k, l, m)

\* similar edges of strength 0.2, 0.5 and 0.8 are drawn with weights 2, 2 and 4.4
C26_Witness ==
    /\ call # Null
    /\ call.fn = "edges"
    /\ SimilarEdges = {1, 2, 3}
    /\ [k \in 1..3 |-> call.connections[k].strength] = <<2, 5, 8>>
    /\ [k \in 1..3 |-> result[k].style.strokeWidth] = <<20, 20, 44>>

\* the ring a node is on: its distance from the origin is ring times the ring
\* spacing of 800, to two pixels (-1 when it is on no ring)
RingOfNode(node) ==
    LET x == DivRound(node.position.x, 10)
        y == DivRound(node.position.y, 10)
        on == {r \in 0..(MaxAllIdeas \div 4 + 1) :
                  Abs(x * x + y * y - (800 * r) * (800 * r)) <= 3200 * r}
    IN  IF on = {} THEN -1 ELSE CHOOSE r \in on : TRUE

\* C27: layoutAllIdeas returns (the loop ends) one node per idea, in input
\* order; every node is on a ring r = 0, 1, 2, ... at radius r times the ring
\* spacing; ring r holds at most 1, 4, 6, 8, 10, 12, 14 and, for every later
\* ring, 14 nodes; the rings are filled in order, a ring holding a node only
\* when every earlier ring is full.
C27_AllIdeasRings ==
    (call # Null /\ call.fn = "layoutAllIdeas") =>
        LET n == Len(call.ideas)
            capacity(r) == <<1, 4, 6, 8, 10, 12, 14>>[Min(r, 6) + 1]
            held(r) == Cardinality({k \in 1..n : RingOfNode(result[k]) = r})
        IN  /\ Len(result) = n
            /\ \A k \in 1..n : result[k].id = call.ideas[k].id
            /\ \A k \in 1..n : RingOfNode(result[k]) >= 0
            /\ \A k, l \in 1..n : k < l => RingOfNode(result[k]) <= RingOfNode(result[l])
            /\ \A r \in 0..(MaxAllIdeas \div 4 + 1) :
                  /\ held(r) <= capacity(r)
                  /\ (held(r) > 0 => \A q \in 0..(r - 1) : held(q) = capacity(q))

\* 85 ideas: the rings 0 to 8 are full, the eighth holding 14 like the
\* seventh, and the last two ideas start ring 9
C27_Witness ==
    /\ call # Null
    /\ call.fn = "layoutAllIdeas"
    /\ Len(call.ideas) = 85
    /\ Len(result) = 85
    /\ RingOfNode(result[1]) = 0
    /\ Cardinality({k \in 1..85 : RingOfNode(result[k]) = 8}) = 14
    /\ {k \in 1..85 : RingOfNode(result[k]) = 9} = {84, 85}

\* C28: layoutClusters on a cluster list of any length returns one card per
\* cluster in the order of the list; with cols = ceil(count / 2), the card of
\* cluster i (counted from 0) stands in column i mod cols and row
\* floor(i / cols) of a grid with 700 px between columns and 850 px between
\* rows; there are at most two rows, no two cards share a cell, and the cell
\* of a card is the same whatever the idea counts of the clusters are.
C28_ClusterGrid ==
    (call # Null /\ call.fn = "layoutClusters") =>
        LET count == Len(call.clusters)
            cols == (count + 1) \div 2
            left == -(((cols - 1) * 700) \div 2)
            col(k) == (result[k].position.x - left) \div 700
            row(k) == (result[k].position.y + 425) \div 850
        IN  /\ Len(result) = count
            /\ \A k \in 1..count :
                  /\ result[k].id = <<"cluster", call.clusters[k].id>>
                  /\ result[k].data = call.clusters[k]
                  /\ result[k].position.x = left + col(k) * 700
                  /\ result[k].position.y = row(k) * 850 - 425
                  /\ col(k) = (k - 1) % cols
                  /\ row(k) = (k - 1) \div cols
                  /\ row(k) \in {0, 1}
                  /\ col(k) \in 0..(cols - 1)
            /\ \A k, l \in 1..count :
                  k # l => /\ <<col(k), row(k)>> # <<col(l), row(l)>>
                           /\ result[k].position # result[l].position
            /\ \A other \in FnClusters(count) :
                  \A k \in 1..count :
                     layoutClusters(other, IdeaList(3), <<>>)[k].position
                        = result[k].position

\* seven clusters whose idea counts fall along the list: four columns, the
\* fifth cluster starts the second row and the last cell stays empty
C28_Witness ==
    /\ call # Null
    /\ call.fn = "layoutClusters"
    /\ Len(call.clusters) = 7
    /\ call.clusters[1].idea_count > call.clusters[7].idea_count
    /\ result[1].position = [x |-> -1050, y |-> -425]
    /\ result[4].position = [x |-> 1050, y |-> -425]
    /\ result[5].position = [x |-> -1050, y |-> 425]
    /\ result[7].position = [x |-> 350, y |-> 425]

-----------------------------------------------------------------------------
(* The idea graph client (companyLogo.ts 1085-1112) and its callers *)

\* const CACHE_DURATION = 5 * 60 * 1000, in minutes
CACHE_DURATION == 5

MaxClock == 6
MaxCalls == 3
NumPayloads == 2

\* getIdeaGraph up to its first await, called by the fetchData effect of a
\* page that mounts (page.tsx 780-796): a valid cache answers at once, anything
\* else starts a request
getIdeaGraph ==
    /\ Len(calls) < MaxCalls
    /\ IF ideaGraphCache # Null /\ clock - ideaGraphCacheTime < CACHE_DURATION
       THEN calls' = Append(calls, [at |-> clock, fetched |-> FALSE, done |-> clock,
                                    data |-> ideaGraphCache])
       ELSE calls' = Append(calls, [at |-> clock, fetched |-> TRUE, done |-> -1,
                                    data |-> Null])
    /\ UNCHANGED <<ideaGraphCache, ideaGraphCacheTime, clock>>
    /\ UNCHANGED <<pageVars, fnVars, searchVars, showAllNodes>>

\* the rest of getIdeaGraph when the response is ok: the payload is cached and
\* stamped with the time of its arrival
ResponseOk ==
    /\ \E k \in 1..Len(calls) : \E payload \in 1..NumPayloads :
          /\ calls[k].fetched
          /\ calls[k].done = -1
          /\ ideaGraphCache' = [payload |-> payload]
          /\ ideaGraphCacheTime' = clock
          /\ calls' = [calls EXCEPT ![k] = [@ EXCEPT !.done = clock,
                                                     !.data = [payload |-> payload]]]
    /\ UNCHANGED clock
    /\ UNCHANGED <<pageVars, fnVars, searchVars, showAllNodes>>

\* the rest of getIdeaGraph when the response is not ok: it throws and caches
\* nothing
ResponseNotOk ==
    /\ \E k \in 1..Len(calls) :
          /\ calls[k].fetched
          /\ calls[k].done = -1
          /\ calls' = [calls EXCEPT ![k] = [@ EXCEPT !.done = clock]]
    /\ UNCHANGED <<ideaGraphCache, ideaGraphCacheTime, clock>>
    /\ UNCHANGED <<pageVars, fnVars, searchVars, showAllNodes>>

\* a minute passes
Tick ==
    /\ clock < MaxClock
    /\ clock' = clock + 1
    /\ UNCHANGED <<ideaGraphCache, ideaGraphCacheTime, calls>>
    /\ UNCHANGED <<pageVars, fnVars, searchVars, showAllNodes>>

NextCache ==
    \/ getIdeaGraph
    \/ ResponseOk
    \/ ResponseNotOk
    \/ Tick

\* the client and the pages that call it
SpecCache == Init /\ [][NextCache]_vars

\* C21: a call of getIdeaGraph that starts while the request of an earlier
\* call is in flight, or less than CACHE_DURATION after that request's payload
\* arrived, issues no request of its own, and when both calls have returned
\* they have returned the same payload.
C21_OneFetchPerWindow ==
    \A i, j \in 1..Len(calls) :
       (/\ i < j
        /\ calls[i].fetched
        /\ \/ calls[i].done = -1
           \/ calls[j].at < calls[i].done
           \/ calls[i].data # Null /\ calls[j].at < calls[i].done + CACHE_DURATION)
       => /\ ~calls[j].fetched
          /\ (calls[i].data # Null /\ calls[j].data # Null) => calls[j].data = calls[i].data

-----------------------------------------------------------------------------
(* The search page (search/page.tsx 7-40, 54-88) *)

\* what the user can type: nothing, a blank, two queries
Queries == {"", " ", "a", "b"}

\* query.trim()
Trim(q) == IF q = " " THEN "" ELSE q

\* data.results of a response: no hit, one hit, two hits
ResultLists == {<<>>, <<"r1">>, <<"r1", "r2">>}

\* data.query_time_ms of a response
QueryTimes == {12, 340}

\* onChange of the input: setQuery(e.target.value)
SetQuery ==
    /\ \E q \in Queries \ {searchPage.query} :
          searchPage' = [searchPage EXCEPT !.query = q]
    /\ UNCHANGED <<searchRequest, clearedSince>>
    /\ UNCHANGED <<pageVars, fnVars, libVars, showAllNodes>>

\* the reranker switch: setUseReranker(!useReranker)
ToggleReranker ==
    /\ searchPage' = [searchPage EXCEPT !.useReranker = ~@]
    /\ UNCHANGED <<searchRequest, clearedSince>>
    /\ UNCHANGED <<pageVars, fnVars, libVars, showAllNodes>>

\* handleClear, behind the button that is rendered while the query is not empty
handleClear ==
    /\ searchPage.query # ""
    /\ searchPage' = [searchPage EXCEPT !.query = "", !.results = <<>>,
                                        !.hasSearched = FALSE, !.searchTime = Null]
    /\ clearedSince' = TRUE
    /\ UNCHANGED searchRequest
    /\ UNCHANGED <<pageVars, fnVars, libVars, showAllNodes>>

\* handleSearch up to its await; the submit button is disabled while loading
\* and while the trimmed query is empty
handleSearch ==
    /\ ~searchPage.isLoading
    /\ Trim(searchPage.query) # ""
    /\ searchPage' = [searchPage EXCEPT !.isLoading = TRUE, !.hasSearched = TRUE,
                                        !.searchTime = Null]
    /\ searchRequest' = [query |-> searchPage.query, rerank |-> searchPage.useReranker]
    /\ clearedSince' = FALSE
    /\ UNCHANGED <<pageVars, fnVars, libVars, showAllNodes>>

\* handleSearch after its await, searchPodcasts resolved: try and finally
SearchResolved ==
    /\ searchRequest # Null
    /\ \E res \in ResultLists : \E ms \in QueryTimes :
          searchPage' = [searchPage EXCEPT !.results = res, !.searchTime = ms,
                                           !.isLoading = FALSE]
    /\ searchRequest' = Null
    /\ UNCHANGED clearedSince
    /\ UNCHANGED <<pageVars, fnVars, libVars, showAllNodes>>

\* handleSearch after its await, searchPodcasts rejected: catch and finally
SearchRejected ==
    /\ searchRequest # Null
    /\ searchPage' = [searchPage EXCEPT !.results = <<>>, !.isLoading = FALSE]
    /\ searchRequest' = Null
    /\ UNCHANGED clearedSince
    /\ UNCHANGED <<pageVars, fnVars, libVars, showAllNodes>>

NextSearch ==
    \/ SetQuery
    \/ ToggleReranker
    \/ handleClear
    \/ handleSearch
    \/ SearchResolved
    \/ SearchRejected

\* the search page on its own
SpecSearch == Init /\ [][NextSearch]_vars

\* C30: from handleClear until the next search is submitted the result list
\* is empty and hasSearched is false, whether or not a request was in flight
\* when the clear happened.
C30_ClearStaysClear ==
    clearedSince => searchPage.results = <<>> /\ ~searchPage.hasSearched

-----------------------------------------------------------------------------
(* The older constellation page (page.tsx 1476-2835): the same state and
   handlers, without the reset listener, with the all-nodes toggle *)

\* the payloads with the top_idea_ids the older page reads: the ideas of each
\* cluster, in payload order
OlderPayloads ==
    { [data EXCEPT !.clusters =
          [c \in 1..Len(data.clusters) |->
              LET own == InCluster(data.nodes, data.clusters[c].id)
              IN  [id |-> data.clusters[c].id, name |-> data.clusters[c].name,
                   idea_count |-> data.clusters[c].idea_count,
                   top_idea_ids |-> [j \in 1..Len(own) |-> own[j].id]]]] :
        data \in Payloads }

\* layoutAllNodesGrouped (page.tsx 2439-2518): per cluster a region and, below
\* its header, the first 8 of its top ideas that are among the ideas
layoutAllNodesGrouped(ideas, clusters) ==
    LET group(clusterIdx) ==
            LET cluster == clusters[clusterIdx + 1]
                clusterX == (clusterIdx % 2) * 4800
                clusterY == (clusterIdx \div 2) * 3800
                found == SelectSeq(cluster.top_idea_ids,
                                   LAMBDA id : \E i \in Range(ideas) : i.id = id)
                topIdeas == Slice([j \in 1..Len(found) |->
                                      CHOOSE i \in Range(ideas) : i.id = found[j]], 8)
                rowCount == CeilHalf(Len(topIdeas))
            IN  <<[id |-> <<"region", cluster.id>>,
                   type |-> "clusterRegion",
                   position |-> [x |-> clusterX - 80, y |-> clusterY - 80 - 50],
                   data |-> [label |-> cluster.name,
                             width |-> 2 * (1000 + 100) + 80 * 2,
                             height |-> 350 + rowCount * (400 + 100) + 80 * 2],
                   onClick |-> "none"]>>
                \o [j \in 1..Len(topIdeas) |->
                      [id |-> topIdeas[j].id,
                       type |-> "idea",
                       position |-> [x |-> clusterX + ((j - 1) % 2) * (1000 + 100),
                                     y |-> clusterY + 300 + ((j - 1) \div 2) * (400 + 100)],
                       data |-> topIdeas[j],
                       onClick |-> "handleExpandIdea"]]
        allNodes[n \in 0..Len(clusters)] ==
            IF n = 0 THEN <<>> ELSE allNodes[n - 1] \o group(n - 1)
    IN  allNodes[Len(clusters)]

\* the build effect of the older page (page.tsx 2521-2710)
OlderBuildEffect ==
    LET gd == graphData'
        sc == selectedCompanies'
        fc == focusedCluster'
        \* layoutClusters of the older page (page.tsx 2239-2262)
        cards(clusters) ==
            LET cols == CeilHalf(Len(clusters))
            IN  [k \in 1..Len(clusters) |->
                    [id |-> <<"cluster", clusters[k].id>>,
                     type |-> "clusterSummary",
                     position |-> [x |-> ((k - 1) % cols) * 400 - ((cols - 1) * 400) \div 2,
                                   y |-> ((k - 1) \div cols) * 400 - 400 \div 2],
                     data |-> clusters[k],
                     onClick |-> "handleExpandCluster"]]
        \* topIdeas branch (page.tsx 2577-2600)
        clusterIdeas == IF Len(sc) > 0 THEN InCluster(filteredIdeas(gd, sc), fc.id)
                        ELSE InCluster(gd.ideas, fc.id)
        topIdeas == SelectSeq(clusterIdeas, LAMBDA i : Includes(fc.top_idea_ids, i.id))
        toShow == IF Len(topIdeas) > 0 THEN topIdeas ELSE Slice(clusterIdeas, 8)
        builtNodes ==
            IF viewLevel' = "clusters"
                THEN IF showAllNodes'
                     THEN layoutAllNodesGrouped(IF Len(sc) > 0 THEN filteredIdeas(gd, sc)
                                                ELSE gd.ideas,
                                                filteredClusters(gd, sc))
                     ELSE cards(filteredClusters(gd, sc))
            ELSE IF viewLevel' = "topIdeas" /\ fc # Null
                THEN layoutTopIdeas(toShow, BetweenVisible(gd, toShow))
            ELSE newNodes(gd, viewLevel', fc, focusedIdea', sc)
        ideaNodes == SelectSeq(nodes', LAMBDA n : n.type = "idea")
        builtEdges ==
            IF viewLevel' = "clusters"
                THEN IF showAllNodes'
                     THEN LET rel == BetweenVisible(gd, [k \in 1..Len(ideaNodes) |->
                                                            ideaNodes[k].data])
                          IN  [k \in 1..Len(rel) |-> EdgeOfConn(rel[k], k - 1, ideaNodes, 5)]
                     ELSE <<>>
            ELSE IF viewLevel' = "topIdeas" /\ fc # Null
                THEN LET rel == BetweenVisible(gd, toShow)
                     IN  [k \in 1..Len(rel) |-> EdgeOfConn(rel[k], k - 1, nodes', 6)]
            ELSE edgesBetween(gd, viewLevel', fc, focusedIdea', sc, nodes')
    IN  /\ nodes' = IF gd = Null THEN nodes ELSE builtNodes
        /\ edges' = IF gd = Null THEN edges ELSE builtEdges

\* fetchData of the older page (page.tsx 2131-2148): getIdeaGraph resolved
OlderFetchResolved ==
    /\ isLoading
    /\ \E data \in OlderPayloads :
          graphData' = [ideas |-> data.nodes, connections |-> data.edges,
                        clusters |-> data.clusters]
    /\ isLoading' = FALSE
    /\ UNCHANGED <<error, selectedIdea, viewLevel, focusedCluster, focusedIdea,
                   selectedCompanies, showAllNodes>>
    /\ OlderBuildEffect
    /\ UNCHANGED <<last, path, fnVars, libVars, searchVars>>

\* fetchData of the older page: getIdeaGraph rejected
OlderFetchRejected ==
    /\ isLoading
    /\ error' = [message |-> "Failed to load graph"]
    /\ isLoading' = FALSE
    /\ UNCHANGED <<graphData, selectedIdea, viewLevel, focusedCluster, focusedIdea,
                   selectedCompanies, showAllNodes>>
    /\ OlderBuildEffect
    /\ UNCHANGED <<last, path, fnVars, libVars, searchVars>>

\* ViewIndicator "Bubbles" / "All Nodes" (page.tsx 1876-1899, 2795): rendered
\* at level clusters, each button bound while the other view is shown
ToggleAllNodes ==
    /\ PageShown
    /\ viewLevel = "clusters"
    /\ showAllNodes' = ~showAllNodes
    /\ UNCHANGED <<graphData, isLoading, error, selectedIdea, viewLevel, focusedCluster,
                   focusedIdea, selectedCompanies>>
    /\ OlderBuildEffect
    /\ UNCHANGED <<last, path, fnVars, libVars, searchVars>>

\* a cluster card's onExpand (page.tsx 1600, 2255)
OlderClickClusterCard ==
    /\ PageShown
    /\ \E k \in 1..Len(nodes) :
          /\ nodes[k].onClick = "handleExpandCluster"
          /\ handleExpandCluster(nodes[k].data)
    /\ UNCHANGED <<graphData, isLoading, error, selectedCompanies, showAllNodes>>
    /\ OlderBuildEffect
    /\ UNCHANGED <<last, path, fnVars, libVars, searchVars>>

\* an idea node's onClick in the topIdeas, allIdeas and all-nodes layouts
\* (page.tsx 2323, 2426, 2510)
OlderClickIdeaNode ==
    /\ PageShown
    /\ \E k \in 1..Len(nodes) :
          /\ nodes[k].onClick = "handleExpandIdea"
          /\ handleExpandIdea(nodes[k].data)
    /\ UNCHANGED <<graphData, isLoading, error, selectedCompanies, showAllNodes>>
    /\ OlderBuildEffect
    /\ UNCHANGED <<last, path, fnVars, libVars, searchVars>>

\* an idea node's onClick in the connectedIdeas layout (page.tsx 2350, 2389)
OlderInspectIdeaNode ==
    /\ PageShown
    /\ \E k \in 1..Len(nodes) :
          /\ nodes[k].onClick = "setSelectedIdea"
          /\ setSelectedIdea(nodes[k].data)
    /\ UNCHANGED <<graphData, isLoading, error, selectedCompanies, showAllNodes>>
    /\ OlderBuildEffect
    /\ UNCHANGED <<last, path, fnVars, libVars, searchVars>>

\* IdeaDetailPanel onClose (page.tsx 2785)
OlderClosePanel ==
    /\ PageShown
    /\ selectedIdea # Null
    /\ onClose
    /\ UNCHANGED <<graphData, isLoading, error, selectedCompanies, showAllNodes>>
    /\ OlderBuildEffect
    /\ UNCHANGED <<last, path, fnVars, libVars, searchVars>>

\* ViewIndicator "Clusters" (page.tsx 1902-1910): not rendered at clusters
OlderBackToClusters ==
    /\ PageShown
    /\ viewLevel # "clusters"
    /\ handleBackToClusters
    /\ UNCHANGED <<graphData, isLoading, error, selectedCompanies, showAllNodes>>
    /\ OlderBuildEffect
    /\ UNCHANGED <<last, path, fnVars, libVars, searchVars>>

\* ViewIndicator cluster breadcrumb (page.tsx 1912-1926): rendered with a
\* cluster name, bound only away from topIdeas
OlderBackToTopIdeas ==
    /\ PageShown
    /\ viewLevel # "clusters"
    /\ focusedCluster # Null /\ focusedCluster.name # ""
    /\ viewLevel # "topIdeas"
    /\ handleBackToTopIdeas
    /\ UNCHANGED <<graphData, isLoading, error, selectedCompanies, showAllNodes>>
    /\ OlderBuildEffect
    /\ UNCHANGED <<last, path, fnVars, libVars, searchVars>>

\* a checkbox of the company dropdown (page.tsx 2149-2157, 2772-2778): one per
\* company of the whole dataset
OlderToggleCompany ==
    /\ PageShown
    /\ \E company \in availableCompanies(graphData, "clusters", Null, Null) :
          toggleCompany(company)
    /\ UNCHANGED <<graphData, isLoading, error, showAllNodes>>
    /\ OlderBuildEffect
    /\ UNCHANGED <<last, path, fnVars, libVars, searchVars>>

NextOlder ==
    \/ OlderFetchResolved
    \/ OlderFetchRejected
    \/ ToggleAllNodes
    \/ OlderClickClusterCard
    \/ OlderClickIdeaNode
    \/ OlderInspectIdeaNode
    \/ OlderClosePanel
    \/ OlderBackToClusters
    \/ OlderBackToTopIdeas
    \/ OlderToggleCompany

\* the older page on its own
SpecOlder == Init /\ [][NextOlder]_vars

\* C23: the view state is never left in violation of its invariant: level
\* connectedIdeas or allIdeas always has a focused cluster, and a focused idea
\* belongs to the focused cluster.
C23_ViolationFallsBack ==
    /\ viewLevel \in {"connectedIdeas", "allIdeas"} => focusedCluster # Null
    /\ (focusedIdea # Null /\ focusedCluster # Null)
          => focusedIdea.cluster_id = focusedCluster.id

====
